---- MODULE Spec2Model ----
(***************************************************************************)
(* Skill taxonomy core of the taxonomy worker: SimilarityMatcher,          *)
(* SkillNormalizer, SkillClusterer.merge_similar_clusters and the          *)
(* TaxonomyManager store they share.                                       *)
(*                                                                         *)
(* A Python str is modelled as a sequence of one-character strings, so     *)
(* that lower(), strip(), title() and the re.sub rewrites are computed     *)
(* character by character.  Scores and confidences are integers in         *)
(* thousandths (1000 = 1.0).                                               *)
(***************************************************************************)
EXTENDS Integers, Sequences, FiniteSets, TLC

VARIABLES
    source_skills,    \* match_skills argument
    target_skills,    \* match_skills argument
    threshold,        \* match_skills argument, thousandths
    lib,              \* fuzz.* results per (source position, target position)
    sim,              \* embedding cosine per (source position, target position)
    match_type,       \* strategy of the finished match_skills call
    match_result,     \* value returned by match_skills
    mpc,              \* "call" before match_skills runs, "done" after
    overlap,          \* value returned by calculate_skill_overlap
    embedding,        \* the _get_skill_embedding calls on one string: the
                      \* string, hash() of its words, the vectors returned
    clusters,         \* merge_similar_clusters argument
    similarity_threshold,  \* merge_similar_clusters argument, thousandths
    merged,           \* lists returned by successive merge_similar_clusters calls
    clustering,       \* the last cluster_skills call: its arguments and what
                      \* the clustering library answered
    cluster_result,   \* value returned by the last cluster_skills call
    taxonomy_data,    \* TaxonomyManager.taxonomy_data, in dict order
    categories,       \* TaxonomyManager.categories: the "skills" list per key
    tax_outcome,      \* what the last add/update/delete_skill call returned
    tax_ops,          \* number of add/update/delete_skill calls made and
                      \* of losses of the store
    store,            \* "up" while get_all_skills answers; "down" if it has
                      \* raised on every call, "lost" if it raises by now
    cache,            \* SkillNormalizer.cache
    batch,            \* the normalize_skills call in progress
    response,         \* value returned by the last normalize_skills call
    norm_calls        \* number of normalize_skills calls made

matchVars == <<source_skills, target_skills, threshold, lib, sim, match_type,
               match_result, mpc, overlap, embedding>>

mergeVars == <<clusters, similarity_threshold, merged, clustering,
               cluster_result>>

taxVars == <<taxonomy_data, categories, tax_outcome, tax_ops, store>>

normVars == <<cache, batch, response, norm_calls>>

vars == <<matchVars, mergeVars, taxVars, normVars>>

-----------------------------------------------------------------------------
(* Bounds *)

MaxLen == 2

MaxClusters == 3

MaxBatch == 2

MaxTaxOps == 1

MaxNormCalls == 1

MaxSkills == 3

-----------------------------------------------------------------------------
(* Characters and str methods *)

UpperLetters == <<"A","B","C","D","E","F","G","H","I","J","K","L","M",
                  "N","O","P","Q","R","S","T","U","V","W","X","Y","Z">>

LowerLetters == <<"a","b","c","d","e","f","g","h","i","j","k","l","m",
                  "n","o","p","q","r","s","t","u","v","w","x","y","z">>

\* the lower-case letter of each upper-case letter
LowerMap ==
    [c \in {UpperLetters[k] : k \in 1..26} |->
        LowerLetters[CHOOSE k \in 1..26 : UpperLetters[k] = c]]

\* the upper-case letter of each lower-case letter
UpperMap ==
    [c \in {LowerLetters[k] : k \in 1..26} |->
        UpperLetters[CHOOSE k \in 1..26 : LowerLetters[k] = c]]

IsAlpha(c) == c \in DOMAIN LowerMap \/ c \in DOMAIN UpperMap

\* \w of the re module
IsWordChar(c) ==
    \/ IsAlpha(c)
    \/ c \in {"0","1","2","3","4","5","6","7","8","9"}
    \/ c = "_"

\* \s of the re module (the only whitespace of the inputs is the blank)
IsSpace(c) == c = " "

LowerChar(c) == IF c \in DOMAIN LowerMap THEN LowerMap[c] ELSE c

UpperChar(c) == IF c \in DOMAIN UpperMap THEN UpperMap[c] ELSE c

\* str.lower()
Lower(s) == [k \in 1..Len(s) |-> LowerChar(s[k])]

RECURSIVE LStrip(_)
LStrip(s) ==
    IF s # <<>> /\ IsSpace(Head(s)) THEN LStrip(Tail(s)) ELSE s

RECURSIVE RStrip(_)
RStrip(s) ==
    IF s # <<>> /\ IsSpace(s[Len(s)]) THEN RStrip(SubSeq(s, 1, Len(s) - 1))
    ELSE s

\* str.strip()
Strip(s) == RStrip(LStrip(s))

\* re.sub(r'\s+', ' ', s)
RECURSIVE CollapseSpaces(_)
CollapseSpaces(s) ==
    IF s = <<>> THEN <<>>
    ELSE IF IsSpace(Head(s))
         THEN <<" ">> \o CollapseSpaces(LStrip(s))
         ELSE <<Head(s)>> \o CollapseSpaces(Tail(s))

\* re.sub(r'[^\w\s]', '', s)
RemovePunctuation(s) == SelectSeq(s, LAMBDA c : IsWordChar(c) \/ IsSpace(c))

\* s[k:k+len(p)] == p
MatchesAt(s, k, p) ==
    /\ k + Len(p) - 1 <= Len(s)
    /\ \A d \in 1..Len(p) : s[k + d - 1] = p[d]

\* \b before position k and after position k+n-1, for a match of word
\* characters
WordBounded(s, k, n) ==
    /\ (k = 1 \/ ~IsWordChar(s[k - 1]))
    /\ (k + n > Len(s) \/ ~IsWordChar(s[k + n]))

\* re.sub(r'\bpat\b', rep, s), scanning from position k
RECURSIVE SubWordFrom(_, _, _, _)
SubWordFrom(s, k, pat, rep) ==
    IF k > Len(s) THEN <<>>
    ELSE IF MatchesAt(s, k, pat) /\ WordBounded(s, k, Len(pat))
         THEN rep \o SubWordFrom(s, k + Len(pat), pat, rep)
         ELSE <<s[k]>> \o SubWordFrom(s, k + 1, pat, rep)

-----------------------------------------------------------------------------
(* SimilarityMatcher *)

\* SimilarityMatcher._preprocess_skill
MatcherPreprocess(skill) ==
    IF skill = <<>> THEN skill
    ELSE LET s1 == Strip(Lower(skill))
             s2 == CollapseSpaces(s1)
             s3 == RemovePunctuation(s2)
             s4 == SubWordFrom(s3, 1,
                       <<"j","a","v","a","s","c","r","i","p","t">>,
                       <<"j","s">>)
             s5 == SubWordFrom(s4, 1,
                       <<"t","y","p","e","s","c","r","i","p","t">>,
                       <<"t","s">>)
             s6 == SubWordFrom(s5, 1, <<"p","y","t","h","o","n">>,
                       <<"p","y">>)
         IN  Strip(s6)

\* LookupIndex without the key test: every source hits the last target
LookupIndex_AnyKey(targets, key) == Len(targets)

\* target_lookup[key]: a dict comprehension keeps the last position of a key
LookupIndex(targets, key) ==
    IF \E j \in 1..Len(targets) : Lower(targets[j]) = key
    THEN CHOOSE j \in 1..Len(targets) :
            /\ Lower(targets[j]) = key
            /\ \A j2 \in 1..Len(targets) : Lower(targets[j2]) = key => j2 <= j
    ELSE 0

\* SimilarityMatcher._exact_matching; si and ti are the loop positions i and
\* target_idx at which the match is appended
RECURSIVE ExactFrom(_, _, _)
ExactFrom(sources, targets, i) ==
    IF i > Len(sources) THEN <<>>
    ELSE LET j == LookupIndex(targets, Lower(sources[i]))
         IN  IF j # 0
             THEN <<[source_skill |-> sources[i], target_skill |-> targets[j],
                     confidence |-> 1000, match_type |-> "exact",
                     si |-> i, ti |-> j]>>
                  \o ExactFrom(sources, targets, i + 1)
             ELSE ExactFrom(sources, targets, i + 1)

ExactMatching(sources, targets, th) ==
    LET ms == ExactFrom(sources, targets, 1)
    IN  [matches |-> ms,
         matched_sources |-> {ms[k].si : k \in 1..Len(ms)},
         matched_targets |-> {ms[k].ti : k \in 1..Len(ms)}]

\* fuzz.ratio, fuzz.partial_ratio, fuzz.token_sort_ratio and
\* fuzz.token_set_ratio of one (source, target) pair, each in 0..100;
\* combined_score in thousandths
CombinedScore(p) == p.ratio * 4 + p.partial * 3 + p.sort * 2 + p.set * 1

\* inner loop of _fuzzy_matching over targets j..m for one source: the
\* running (best_score, best_target_idx), 0 standing for -1
RECURSIVE FuzzyScan(_, _, _, _, _, _, _)
FuzzyScan(L, i, j, m, used, th, best) ==
    IF j > m THEN best
    ELSE IF j \in used THEN FuzzyScan(L, i, j + 1, m, used, th, best)
    ELSE LET c == CombinedScore(L[<<i, j>>])
         IN  IF c > best.score /\ c >= th
             THEN FuzzyScan(L, i, j + 1, m, used, th, [score |-> c, idx |-> j])
             ELSE FuzzyScan(L, i, j + 1, m, used, th, best)

\* BestFuzzyTarget taking the first acceptable target instead of the best
BestFuzzyTarget_FirstAcceptable(L, i, m, used, th) ==
    LET ok(j) == j \notin used /\ CombinedScore(L[<<i, j>>]) >= th
    IN  IF \E j \in 1..m : ok(j)
        THEN LET j == CHOOSE j \in 1..m : ok(j) /\ \A j2 \in 1..(j - 1) : ~ok(j2)
             IN  [score |-> CombinedScore(L[<<i, j>>]), idx |-> j]
        ELSE [score |-> 0, idx |-> 0]

BestFuzzyTarget(L, i, m, used, th) ==
    FuzzyScan(L, i, 1, m, used, th, [score |-> 0, idx |-> 0])

\* outer loop of _fuzzy_matching from source i on
RECURSIVE FuzzyFrom(_, _, _, _, _, _)
FuzzyFrom(sources, targets, th, L, i, used) ==
    IF i > Len(sources) THEN <<>>
    ELSE LET b == BestFuzzyTarget(L, i, Len(targets), used, th)
         IN  IF b.idx # 0
             THEN <<[source_skill |-> sources[i],
                     target_skill |-> targets[b.idx],
                     confidence |-> b.score, match_type |-> "fuzzy",
                     si |-> i, ti |-> b.idx]>>
                  \o FuzzyFrom(sources, targets, th, L, i + 1,
                               used \cup {b.idx})
             ELSE FuzzyFrom(sources, targets, th, L, i + 1, used)

\* SimilarityMatcher._fuzzy_matching
FuzzyMatching(sources, targets, th, L) ==
    LET ms == FuzzyFrom(sources, targets, th, L, 1, {})
    IN  [matches |-> ms,
         matched_sources |-> {ms[k].si : k \in 1..Len(ms)},
         matched_targets |-> {ms[k].ti : k \in 1..Len(ms)}]

\* the two is_best checks of _semantic_matching for the pair (i, j)
IsBestForSource(S, i, j, m, mt) ==
    ~\E k \in 1..m : k # j /\ k \notin mt /\ S[<<i, k>>] > S[<<i, j>>]

IsBestForTarget(S, i, j, n, ms) ==
    ~\E k \in 1..n : k # i /\ k \notin ms /\ S[<<k, j>>] > S[<<i, j>>]

\* the target at which the inner loop of _semantic_matching breaks for
\* source i, 0 when it runs to the end
SemanticTarget(S, i, n, m, ms, mt, th) ==
    LET ok(j) == /\ j \notin mt
                 /\ S[<<i, j>>] >= th
                 /\ IsBestForSource(S, i, j, m, mt)
                 /\ IsBestForTarget(S, i, j, n, ms)
    IN  IF \E j \in 1..m : ok(j)
        THEN CHOOSE j \in 1..m : ok(j) /\ \A j2 \in 1..(j - 1) : ~ok(j2)
        ELSE 0

RECURSIVE SemanticFrom(_, _, _, _, _, _, _)
SemanticFrom(sources, targets, th, S, i, ms, mt) ==
    IF i > Len(sources) THEN <<>>
    ELSE LET j == SemanticTarget(S, i, Len(sources), Len(targets), ms, mt, th)
         IN  IF j # 0
             THEN <<[source_skill |-> sources[i], target_skill |-> targets[j],
                     confidence |-> S[<<i, j>>], match_type |-> "semantic",
                     si |-> i, ti |-> j]>>
                  \o SemanticFrom(sources, targets, th, S, i + 1,
                                  ms \cup {i}, mt \cup {j})
             ELSE SemanticFrom(sources, targets, th, S, i + 1, ms, mt)

\* SimilarityMatcher._semantic_matching
SemanticMatching(sources, targets, th, S) ==
    LET ms == SemanticFrom(sources, targets, th, S, 1, {}, {})
    IN  [matches |-> ms,
         matched_sources |-> {ms[k].si : k \in 1..Len(ms)},
         matched_targets |-> {ms[k].ti : k \in 1..Len(ms)}]

\* list.index(x), 1-based
IndexOf(seq, x) ==
    CHOOSE k \in 1..Len(seq) : seq[k] = x /\ \A k2 \in 1..(k - 1) : seq[k2] # x

\* positions 1..n outside a set, ascending
RECURSIVE RemainingFrom(_, _, _)
RemainingFrom(i, n, matched) ==
    IF i > n THEN <<>>
    ELSE IF i \in matched THEN RemainingFrom(i + 1, n, matched)
    ELSE <<i>> \o RemainingFrom(i + 1, n, matched)

\* self.thresholds[MatchType.EXACT]
ExactThreshold == 950

\* the fuzzy phase of _hybrid_matching on the remaining positions, mapped
\* back through list.index; si, ti keep the positions the pair was found at
HybridFuzzyPart(sources, targets, th, L, remS, remT) ==
    LET rss == [k \in 1..Len(remS) |-> sources[remS[k]]]
        rts == [k \in 1..Len(remT) |-> targets[remT[k]]]
        RL == [q \in (1..Len(remS)) \X (1..Len(remT)) |->
                  L[<<remS[q[1]], remT[q[2]]>>]]
        fz == IF remS # <<>> /\ remT # <<>>
              THEN FuzzyMatching(rss, rts, th, RL).matches
              ELSE <<>>
    IN  [matches |-> [k \in 1..Len(fz) |->
                        [fz[k] EXCEPT !.si = remS[fz[k].si],
                                      !.ti = remT[fz[k].ti]]],
         matched_sources |->
            {remS[IndexOf(rss, fz[k].source_skill)] : k \in 1..Len(fz)},
         matched_targets |->
            {remT[IndexOf(rts, fz[k].target_skill)] : k \in 1..Len(fz)}]

HybridCombine(ex, fz) ==
    [matches |-> ex.matches \o fz.matches,
     matched_sources |-> ex.matched_sources \cup fz.matched_sources,
     matched_targets |-> ex.matched_targets \cup fz.matched_targets]

HybridAfterExact(sources, targets, th, L, ex) ==
    HybridCombine(ex,
        HybridFuzzyPart(sources, targets, th, L,
            RemainingFrom(1, Len(sources), ex.matched_sources),
            RemainingFrom(1, Len(targets), ex.matched_targets)))

\* HybridMatching that forgets to keep the exact matches
HybridMatching_ExactDropped(sources, targets, th, L) ==
    HybridFuzzyPart(sources, targets, th, L,
        RemainingFrom(1, Len(sources),
            ExactMatching(sources, targets, ExactThreshold).matched_sources),
        RemainingFrom(1, Len(targets),
            ExactMatching(sources, targets, ExactThreshold).matched_targets))

\* SimilarityMatcher._hybrid_matching
HybridMatching(sources, targets, th, L) ==
    HybridAfterExact(sources, targets, th, L,
                     ExactMatching(sources, targets, ExactThreshold))

MatchTypes == {"exact", "fuzzy", "semantic", "hybrid"}

RECURSIVE SumConfidence(_)
SumConfidence(ms) ==
    IF ms = <<>> THEN 0 ELSE Head(ms).confidence + SumConfidence(Tail(ms))

\* SimilarityMatcher.match_skills; an unknown match_type raises in
\* MatchType(...) and takes the except branch
MatchSkills(sources, targets, th, mtype, L, S) ==
    IF mtype \notin MatchTypes
    THEN [matches |-> <<>>, unmatched_source |-> sources,
          unmatched_target |-> targets, average_confidence |-> 0]
    ELSE
    LET ps == [k \in 1..Len(sources) |-> MatcherPreprocess(sources[k])]
        pt == [k \in 1..Len(targets) |-> MatcherPreprocess(targets[k])]
        r == CASE mtype = "exact" -> ExactMatching(ps, pt, th)
               [] mtype = "fuzzy" -> FuzzyMatching(ps, pt, th, L)
               [] mtype = "semantic" -> SemanticMatching(ps, pt, th, S)
               [] mtype = "hybrid" -> HybridMatching(ps, pt, th, L)
        us == RemainingFrom(1, Len(sources), r.matched_sources)
        ut == RemainingFrom(1, Len(targets), r.matched_targets)
    IN  [matches |-> r.matches,
         unmatched_source |-> [k \in 1..Len(us) |-> sources[us[k]]],
         unmatched_target |-> [k \in 1..Len(ut) |-> targets[ut[k]]],
         average_confidence |->
             IF r.matches # <<>>
             THEN SumConfidence(r.matches) \div Len(r.matches)
             ELSE 0]

-----------------------------------------------------------------------------
(* Inputs of the matcher *)

P_react == <<"r","e","a","c","t">>
P_reactjs == <<"r","e","a","c","t","j","s">>
P_js == <<"j","s">>

\* React, REACT, React.js, JavaScript, JS
MatchVocab ==
    {<<"R","e","a","c","t">>, <<"R","E","A","C","T">>,
     <<"R","e","a","c","t",".","j","s">>,
     <<"J","a","v","a","S","c","r","i","p","t">>, <<"J","S">>}

Thresholds == {200, 700, 950}

SeqsUpTo(S, n) == UNION {[1..k -> S] : k \in 0..n}

Profile(r, p, so, se) == [ratio |-> r, partial |-> p, sort |-> so, set |-> se]

\* what fuzzywuzzy returns for the preprocessed forms of MatchVocab
FuzzLib(a, b) ==
    CASE a = b -> Profile(100, 100, 100, 100)
      [] {a, b} = {P_react, P_reactjs} -> Profile(83, 100, 83, 83)
      [] {a, b} = {P_reactjs, P_js} -> Profile(44, 100, 44, 44)
      [] {a, b} = {P_react, P_js} -> Profile(0, 0, 0, 0)

\* _calculate_embedding_similarity of the embeddings of the preprocessed
\* forms of MatchVocab, thousandths (word-hash slots apart from each other
\* and from the character slots)
EmbSim(a, b) ==
    CASE a = b -> 1000
      [] {a, b} = {P_react, P_reactjs} -> 421
      [] {a, b} = {P_reactjs, P_js} -> 207
      [] {a, b} = {P_react, P_js} -> 227

LibOf(sources, targets) ==
    [q \in (1..Len(sources)) \X (1..Len(targets)) |->
        FuzzLib(MatcherPreprocess(sources[q[1]]),
                MatcherPreprocess(targets[q[2]]))]

SimOf(sources, targets) ==
    [q \in (1..Len(sources)) \X (1..Len(targets)) |->
        EmbSim(MatcherPreprocess(sources[q[1]]),
               MatcherPreprocess(targets[q[2]]))]

NoResult == [matches |-> <<>>, unmatched_source |-> <<>>,
             unmatched_target |-> <<>>, average_confidence |-> 0]

(* TaxonomyManager and SkillNormalizer as their constructors leave them. *)
NoBatch == [skills |-> <<>>, source |-> <<>>, done |-> <<>>, status |-> "idle"]

NoResponse == [normalized_skills |-> <<>>, unmatched_skills |-> <<>>,
               confidence_score |-> 0, raised |-> FALSE]

(* What a taxonomy call returned: ok is FALSE for a False return and for a  *)
(* raised ValueError.                                                      *)
Outcome(op, ok, value) == [op |-> op, ok |-> ok, value |-> value]

NormIdle ==
    /\ taxonomy_data = <<>>
    /\ categories = <<>>
    /\ tax_outcome = Outcome("none", TRUE, <<>>)
    /\ tax_ops = 0
    /\ store = "up"
    /\ cache = <<>>
    /\ batch = NoBatch
    /\ response = NoResponse
    /\ norm_calls = 0

(* No cluster_skills call has been made. *)
NoClustering == [skills |-> <<>>, method |-> <<>>, min_cluster_size |-> 0,
                 max_clusters |-> 0, library |-> [ok |-> TRUE, labels |-> <<>>],
                 status |-> "idle"]

NoClusters == [clusters |-> <<>>, raised |-> FALSE]

(* No merge_similar_clusters or cluster_skills call is in progress. *)
MergeIdle ==
    /\ clusters = <<>>
    /\ similarity_threshold = 0
    /\ merged = <<>>
    /\ clustering = NoClustering
    /\ cluster_result = NoClusters

(* No _get_skill_embedding call has been made. *)
NoEmbedding == [skill |-> <<>>, hash |-> <<>>, returned |-> <<>>]

(* No calculate_skill_overlap call has been made. *)
NoOverlap == [overlap_score |-> 0, precision |-> 0, recall |-> 0,
              f1_score |-> 0, matched_count |-> 0, total_skills1 |-> 0,
              total_skills2 |-> 0, matches |-> <<>>, status |-> "idle"]

(* No match_skills call is in progress. *)
MatchIdle ==
    /\ source_skills = <<>>
    /\ target_skills = <<>>
    /\ threshold = 0
    /\ lib = <<>>
    /\ sim = <<>>
    /\ match_type = "none"
    /\ match_result = NoResult
    /\ mpc = "idle"
    /\ overlap = NoOverlap
    /\ embedding = NoEmbedding

-----------------------------------------------------------------------------
(* match_skills on string inputs *)

InitMatch ==
    /\ source_skills \in SeqsUpTo(MatchVocab, MaxLen)
    /\ target_skills \in SeqsUpTo(MatchVocab, MaxLen)
    /\ threshold \in Thresholds
    /\ lib = LibOf(source_skills, target_skills)
    /\ sim = SimOf(source_skills, target_skills)
    /\ match_type = "none"
    /\ match_result = NoResult
    /\ mpc = "call"
    /\ overlap = NoOverlap
    /\ embedding = NoEmbedding
    /\ MergeIdle
    /\ NormIdle

DoMatch(mtype) ==
    /\ mpc = "call"
    /\ match_type' = mtype
    /\ match_result' = MatchSkills(source_skills, target_skills, threshold,
                                   mtype, lib, sim)
    /\ mpc' = "done"
    /\ UNCHANGED <<source_skills, target_skills, threshold, lib, sim, overlap,
                   embedding>>
    /\ UNCHANGED <<mergeVars, taxVars, normVars>>

(* The threshold calculate_skill_overlap passes to match_skills *)
OverlapThreshold == 700

(* a / b in thousandths, 0.0 when b is not positive *)
Ratio(a, b) == IF b > 0 THEN (a * 1000) \div b ELSE 0

(* OverlapOf counting the matched target positions, not the matches *)
OverlapOf_DistinctTargets(matches, total_skills1, total_skills2) ==
    LET n == Cardinality({matches[k].ti : k \in 1..Len(matches)})
    IN  [overlap_score |->
            Ratio(n, IF total_skills1 > total_skills2 THEN total_skills1
                     ELSE total_skills2),
         precision |-> Ratio(n, total_skills1),
         recall |-> Ratio(n, total_skills2),
         f1_score |->
            IF Ratio(n, total_skills1) + Ratio(n, total_skills2) > 0
            THEN (2 * Ratio(n, total_skills1) * Ratio(n, total_skills2))
                 \div (Ratio(n, total_skills1) + Ratio(n, total_skills2))
            ELSE 0,
         matched_count |-> n,
         total_skills1 |-> total_skills1,
         total_skills2 |-> total_skills2,
         matches |-> matches,
         status |-> "done"]

(* Lines 469-488, for the result of the hybrid match_skills call. *)
OverlapOf(matches, total_skills1, total_skills2) ==
    [overlap_score |->
        Ratio(Len(matches),
              IF total_skills1 > total_skills2 THEN total_skills1
              ELSE total_skills2),
     precision |-> Ratio(Len(matches), total_skills1),
     recall |-> Ratio(Len(matches), total_skills2),
     f1_score |->
        IF Ratio(Len(matches), total_skills1)
              + Ratio(Len(matches), total_skills2) > 0
        THEN (2 * Ratio(Len(matches), total_skills1)
                * Ratio(Len(matches), total_skills2))
             \div (Ratio(Len(matches), total_skills1)
                      + Ratio(Len(matches), total_skills2))
        ELSE 0,
     matched_count |-> Len(matches),
     total_skills1 |-> total_skills1,
     total_skills2 |-> total_skills2,
     matches |-> matches,
     status |-> "done"]

(* calculate_skill_overlap(skills1, skills2) *)
CalculateSkillOverlap(skills1, skills2, L, S) ==
    OverlapOf(MatchSkills(skills1, skills2, OverlapThreshold, "hybrid", L, S)
                 .matches,
              Len(skills1), Len(skills2))

DoOverlap ==
    /\ mpc = "call"
    /\ overlap' = CalculateSkillOverlap(source_skills, target_skills, lib, sim)
    /\ mpc' = "done"
    /\ UNCHANGED <<source_skills, target_skills, threshold, lib, sim,
                   match_type, match_result, embedding>>
    /\ UNCHANGED <<mergeVars, taxVars, normVars>>

NextMatch ==
    \/ \E mtype \in MatchTypes \cup {"unknown"} : DoMatch(mtype)
    \/ DoOverlap

SpecMatch == InitMatch /\ [][NextMatch]_vars

-----------------------------------------------------------------------------
(* _fuzzy_matching on arbitrary library scores *)

ListNames == <<<<"s","1">>, <<"s","2">>, <<"s","3">>, <<"s","4">>>>

FuzzProfiles == {Profile(44, 100, 44, 44), Profile(83, 100, 83, 83),
                 Profile(100, 100, 100, 100)}

FuzzThresholds == {500, 700, 950}

InitFuzzy ==
    /\ \E n \in 0..MaxLen, m \in 0..MaxLen :
          /\ source_skills = SubSeq(ListNames, 1, n)
          /\ target_skills = SubSeq(ListNames, 1, m)
          /\ lib \in [(1..n) \X (1..m) -> FuzzProfiles]
    /\ threshold \in FuzzThresholds
    /\ sim = <<>>
    /\ match_type = "none"
    /\ match_result = ExactMatching(<<>>, <<>>, 0)
    /\ mpc = "call"
    /\ overlap = NoOverlap
    /\ embedding = NoEmbedding
    /\ MergeIdle
    /\ NormIdle

FuzzyCall ==
    /\ mpc = "call"
    /\ match_type' = "fuzzy"
    /\ match_result' = FuzzyMatching(source_skills, target_skills, threshold,
                                     lib)
    /\ mpc' = "done"
    /\ UNCHANGED <<source_skills, target_skills, threshold, lib, sim, overlap,
                   embedding>>
    /\ UNCHANGED <<mergeVars, taxVars, normVars>>

NextFuzzy == FuzzyCall

SpecFuzzy == InitFuzzy /\ [][NextFuzzy]_vars

-----------------------------------------------------------------------------
(* SkillClusterer.merge_similar_clusters *)

(* min(skills, key=len), "" for an empty cluster. *)
ClusterRepresentative(skills) ==
    IF skills = {} THEN <<>>
    ELSE CHOOSE s \in skills : \A t \in skills : Len(s) <= Len(t)

(* intersection / union >= t, and 0.0 >= t when the union is empty. *)
ClusterSimilarityAtLeast(cluster1, cluster2, t) ==
    LET inter == Cardinality(cluster1.skills \cap cluster2.skills)
        union == Cardinality(cluster1.skills \cup cluster2.skills)
    IN  IF union = 0 THEN 0 >= t ELSE inter * 1000 >= t * union

(* The inner loop over cluster2 for a fixed cluster1 = cs[i]. *)
RECURSIVE MergeInner(_, _, _, _, _, _)
MergeInner(cs, i, j, t, current_skills, processed_indices) ==
    IF j > Len(cs)
    THEN [skills |-> current_skills, processed |-> processed_indices]
    ELSE IF j <= i \/ j \in processed_indices
    THEN MergeInner(cs, i, j + 1, t, current_skills, processed_indices)
    ELSE IF ClusterSimilarityAtLeast(cs[i], cs[j], t)
    THEN MergeInner(cs, i, j + 1, t, current_skills \cup cs[j].skills,
                    processed_indices \cup {j})
    ELSE MergeInner(cs, i, j + 1, t, current_skills, processed_indices)

MergedCluster(cluster1, inner) ==
    [cluster1 EXCEPT !.skills = inner.skills,
                     !.size = Cardinality(inner.skills)]

(* The outer loop over cluster1. *)
RECURSIVE MergeOuter(_, _, _, _, _)
MergeOuter(cs, i, t, processed_indices, merged_clusters) ==
    IF i > Len(cs) THEN merged_clusters
    ELSE IF i \in processed_indices
    THEN MergeOuter(cs, i + 1, t, processed_indices, merged_clusters)
    ELSE MergeOuter(cs, i + 1, t,
            MergeInner(cs, i, 1, t, cs[i].skills, processed_indices).processed
                \cup {i},
            Append(merged_clusters,
                   MergedCluster(cs[i], MergeInner(cs, i, 1, t, cs[i].skills,
                                                   processed_indices))))

MergeSimilarClusters(cs, t) ==
    IF Len(cs) <= 1 THEN cs ELSE MergeOuter(cs, 1, t, {}, <<>>)

DefaultMergeThreshold == 700

(* A cluster as cluster_skills builds it. *)
MakeCluster(id, skills) ==
    [cluster_id |-> id, skills |-> skills, size |-> Cardinality(skills),
     representative_skill |-> ClusterRepresentative(skills)]

InitMerge ==
    /\ \E n \in 0..MaxClusters :
          \E members \in [1..n -> SUBSET {P_js, P_react, P_reactjs}] :
             clusters = [k \in 1..n |-> MakeCluster(k, members[k])]
    /\ similarity_threshold \in {0, 500, DefaultMergeThreshold}
    /\ merged = <<>>
    /\ clustering = NoClustering
    /\ cluster_result = NoClusters
    /\ MatchIdle
    /\ NormIdle

(* merge_similar_clusters(clusters, t) *)
MergeFirst ==
    /\ Len(merged) = 0
    /\ merged' = <<MergeSimilarClusters(clusters, similarity_threshold)>>
    /\ UNCHANGED <<clusters, similarity_threshold, clustering, cluster_result>>
    /\ UNCHANGED <<matchVars, taxVars, normVars>>

(* merge_similar_clusters applied to the list the first call returned *)
MergeAgain ==
    /\ Len(merged) = 1
    /\ merged' = Append(merged,
                        MergeSimilarClusters(merged[1], similarity_threshold))
    /\ UNCHANGED <<clusters, similarity_threshold, clustering, cluster_result>>
    /\ UNCHANGED <<matchVars, taxVars, normVars>>

NextMerge ==
    \/ MergeFirst
    \/ MergeAgain

SpecMerge == InitMerge /\ [][NextMerge]_vars

-----------------------------------------------------------------------------
(* SimilarityMatcher._get_skill_embedding and SkillClusterer._get_skill_embedding *)

(* [0.0] * 128 *)
EmbeddingSize == 128

MaxEmbedLen == 3

MaxEmbedCalls == 2

(* ord(char) of a lower-case letter *)
Ord(c) == 96 + (CHOOSE k \in 1..26 : LowerLetters[k] = c)

(* str.split(): the maximal runs of characters that are not whitespace *)
RECURSIVE SplitFrom(_, _, _)
SplitFrom(s, k, word) ==
    IF k > Len(s) THEN (IF word = <<>> THEN <<>> ELSE <<word>>)
    ELSE IF IsSpace(s[k])
    THEN (IF word = <<>> THEN <<>> ELSE <<word>>) \o SplitFrom(s, k + 1, <<>>)
    ELSE SplitFrom(s, k + 1, Append(word, s[k]))

(* The sum of ord(char) over the alphabetic characters at the positions    *)
(* that fall on slot i, and 255 for every word whose hash falls on it: the *)
(* embedding before it is normalized, in units of 1/255.                   *)
SlotValue(words, hash, i, acc) ==
    acc + 255 * Cardinality({w \in 1..Len(words) : hash[words[w]] = i})

RECURSIVE CharFeatures(_, _, _, _)
CharFeatures(skill, i, k, acc) ==
    IF k > Len(skill) \/ k > EmbeddingSize THEN acc
    ELSE CharFeatures(skill, i, k + 1,
             IF (k - 1) % EmbeddingSize = i /\ IsAlpha(skill[k])
             THEN acc + Ord(skill[k]) ELSE acc)

(* _get_skill_embedding(skill) with hash(word) % 128 given by hash: the    *)
(* vector before the division and whether it was divided by its magnitude, *)
(* which is done when the magnitude is positive.                           *)
GetSkillEmbedding(skill, hash) ==
    [raw |-> [i \in 0..(EmbeddingSize - 1) |->
                 SlotValue(SplitFrom(Lower(skill), 1, <<>>), hash, i,
                           CharFeatures(Lower(skill), i, 1, 0))],
     normalized |->
        \E i \in 0..(EmbeddingSize - 1) :
           SlotValue(SplitFrom(Lower(skill), 1, <<>>), hash, i,
                     CharFeatures(Lower(skill), i, 1, 0)) # 0]

(* Strings of letters, digits, punctuation and blanks *)
EmbedInputs == SeqsUpTo({"J", "s", "1", ".", " "}, MaxEmbedLen)

(* The words of the lower-cased string *)
WordsOf(skill) ==
    {SplitFrom(Lower(skill), 1, <<>>)[w] :
        w \in 1..Len(SplitFrom(Lower(skill), 1, <<>>))}

(* Values of hash(word) % 128: the slot of the first character, the next   *)
(* slot and the last slot.                                                 *)
HashSlots == {0, 1, EmbeddingSize - 1}

(* One process: hash() is a fixed function of the word. *)
InitEmbed ==
    /\ \E skill \in EmbedInputs :
          \E hash \in [WordsOf(skill) -> HashSlots] :
             embedding = [skill |-> skill, hash |-> hash, returned |-> <<>>]
    /\ source_skills = <<>>
    /\ target_skills = <<>>
    /\ threshold = 0
    /\ lib = <<>>
    /\ sim = <<>>
    /\ match_type = "none"
    /\ match_result = NoResult
    /\ mpc = "idle"
    /\ overlap = NoOverlap
    /\ MergeIdle
    /\ NormIdle

(* One more call of _get_skill_embedding on the string *)
EmbedCall ==
    /\ Len(embedding.returned) < MaxEmbedCalls
    /\ embedding' =
          [embedding EXCEPT !.returned =
              Append(@, GetSkillEmbedding(embedding.skill, embedding.hash))]
    /\ UNCHANGED <<source_skills, target_skills, threshold, lib, sim,
                   match_type, match_result, mpc, overlap>>
    /\ UNCHANGED <<mergeVars, taxVars, normVars>>

NextEmbed == EmbedCall

SpecEmbed == InitEmbed /\ [][NextEmbed]_vars

-----------------------------------------------------------------------------
(* TaxonomyManager *)

(* dict.get(key, default) *)
DictGet(d, key, default) == IF key \in DOMAIN d THEN d[key] ELSE default

(* dict.update(other) *)
DictUpdate(d, other) ==
    [k \in DOMAIN d \cup DOMAIN other |->
        IF k \in DOMAIN other THEN other[k] ELSE d[k]]

(* The keys of default_categories, in order. *)
DefaultCategoryKeys ==
    <<"programming_languages", "frameworks", "databases", "cloud_platforms",
      "devops", "data_science", "web_technologies", "mobile_development",
      "soft_skills", "business_skills">>

(* _load_default_taxonomy: the five category keys and, of its entries, the  *)
(* two below; the store is in this state once the other default entries    *)
(* have been deleted.                                                      *)
LoadedTaxonomy ==
    <<[category |-> "programming_languages",
       skills |-> <<[name |-> <<"J","a","v","a","S","c","r","i","p","t">>,
                     data |-> [aliases |-> <<<<"j","a","v","a","s","c","r","i","p","t">>, <<"j","s">>, <<"J","S">>,
                                             <<"E","C","M","A","S","c","r","i","p","t">>>>,
                               category |-> "programming_languages",
                               description |->
                                 "Programming language for web development",
                               level |-> "essential"]]>>],
      [category |-> "frameworks",
       skills |-> <<[name |-> <<"R","e","a","c","t">>,
                     data |-> [aliases |-> <<<<"r","e","a","c","t">>, <<"R","e","a","c","t",".","j","s">>, <<"R","e","a","c","t","J","S">>>>,
                               category |-> "frameworks",
                               description |->
                                 "JavaScript library for building user interfaces",
                               level |-> "essential"]]>>],
      [category |-> "databases", skills |-> <<>>],
      [category |-> "cloud_platforms", skills |-> <<>>],
      [category |-> "devops", skills |-> <<>>]>>

(* Position of a key in an ordered dict, 0 when absent. *)
CategoryPos(td, category) ==
    IF \E k \in 1..Len(td) : td[k].category = category
    THEN CHOOSE k \in 1..Len(td) : td[k].category = category
    ELSE 0

SkillPos(skills, name) ==
    IF \E k \in 1..Len(skills) : skills[k].name = name
    THEN CHOOSE k \in 1..Len(skills) : skills[k].name = name
    ELSE 0

(* load_categories: the default keys, each with the names of its skills. *)
LoadCategories(td) ==
    [c \in {DefaultCategoryKeys[k] : k \in 1..Len(DefaultCategoryKeys)} |->
        IF CategoryPos(td, c) # 0
        THEN [k \in 1..Len(td[CategoryPos(td, c)].skills) |->
                 td[CategoryPos(td, c)].skills[k].name]
        ELSE <<>>]

(* The entries get_all_skills builds for one category. *)
SkillEntries(cat) ==
    [k \in 1..Len(cat.skills) |->
        [name |-> cat.skills[k].name,
         category |-> cat.category,
         aliases |-> DictGet(cat.skills[k].data, "aliases", <<>>),
         description |-> DictGet(cat.skills[k].data, "description", ""),
         level |-> DictGet(cat.skills[k].data, "level", "unknown"),
         metadata |-> [key \in DOMAIN cat.skills[k].data
                                 \ {"aliases", "description", "level"} |->
                          cat.skills[k].data[key]]]]

RECURSIVE GetAllSkillsFrom(_, _)
GetAllSkillsFrom(td, k) ==
    IF k > Len(td) THEN <<>>
    ELSE SkillEntries(td[k]) \o GetAllSkillsFrom(td, k + 1)

GetAllSkills(td) == GetAllSkillsFrom(td, 1)

(* f"{category}:{skill_name}"; a category key is one element of the id. *)
SkillId(category, name) == <<category, ":">> \o name

ColonPos(id) ==
    CHOOSE k \in 1..Len(id) :
        id[k] = ":" /\ \A j \in 1..(k - 1) : id[j] # ":"

(* skill_id.split(":", 1) *)
IdCategory(id) == SubSeq(id, 1, ColonPos(id) - 1)

IdName(id) == SubSeq(id, ColonPos(id) + 1, Len(id))

IdCategoryPos(td, id) ==
    IF \E k \in 1..Len(td) : <<td[k].category>> = IdCategory(id)
    THEN CHOOSE k \in 1..Len(td) : <<td[k].category>> = IdCategory(id)
    ELSE 0

(* The skill an add/update/delete id names, as <<category pos, skill pos>>; *)
(* <<0, 0>> when the id is malformed or names nothing.                     *)
Locate(td, id) ==
    IF (\A k \in 1..Len(id) : id[k] # ":") \/ IdCategoryPos(td, id) = 0
    THEN <<0, 0>>
    ELSE <<IdCategoryPos(td, id),
           SkillPos(td[IdCategoryPos(td, id)].skills, IdName(id))>>

(* add_skill storing the entry as soon as its aliases are set *)
NewSkillEntry_AliasesOnly(skill_data) ==
    [aliases |-> DictGet(skill_data, "aliases", <<>>)]

(* The dict add_skill stores for skill_data. *)
NewSkillEntry(skill_data) ==
    DictUpdate([aliases |-> DictGet(skill_data, "aliases", <<>>),
                description |-> DictGet(skill_data, "description", ""),
                level |-> DictGet(skill_data, "level", "unknown"),
                created_at |-> "now"],
               [key \in DOMAIN skill_data
                        \ {"name", "category", "aliases", "description",
                           "level"} |-> skill_data[key]])

(* taxonomy_data with the category key created when missing *)
WithCategory(td, category) ==
    IF CategoryPos(td, category) = 0
    THEN Append(td, [category |-> category, skills |-> <<>>])
    ELSE td

RemoveAt(seq, k) == SubSeq(seq, 1, k - 1) \o SubSeq(seq, k + 1, Len(seq))

(* list.remove(x): the first occurrence *)
ListRemove(seq, x) ==
    RemoveAt(seq, CHOOSE k \in 1..Len(seq) :
                     seq[k] = x /\ \A j \in 1..(k - 1) : seq[j] # x)

InList(seq, x) == \E k \in 1..Len(seq) : seq[k] = x

(* add_skill(skill_data) *)
AddSkill(skill_data) ==
    /\ tax_ops < MaxTaxOps
    /\ tax_ops' = tax_ops + 1
    /\ IF \/ DictGet(skill_data, "name", <<>>) = <<>>
          \/ DictGet(skill_data, "category", "") = ""
       THEN /\ tax_outcome' = Outcome("add", FALSE, <<"ValueError">>)
            /\ UNCHANGED <<taxonomy_data, categories>>
       ELSE LET td == WithCategory(taxonomy_data, skill_data.category)
                c == CategoryPos(td, skill_data.category)
            IN  IF SkillPos(td[c].skills, skill_data.name) # 0
                THEN /\ taxonomy_data' = td
                     /\ tax_outcome' = Outcome("add", FALSE, <<"ValueError">>)
                     /\ UNCHANGED categories
                ELSE /\ taxonomy_data' =
                          [td EXCEPT ![c].skills =
                              Append(@, [name |-> skill_data.name,
                                         data |-> NewSkillEntry(skill_data)])]
                     /\ categories' =
                          IF /\ skill_data.category \in DOMAIN categories
                             /\ ~InList(categories[skill_data.category],
                                        skill_data.name)
                          THEN [categories EXCEPT ![skill_data.category] =
                                   Append(@, skill_data.name)]
                          ELSE categories
                     /\ tax_outcome' =
                          Outcome("add", TRUE,
                                  SkillId(skill_data.category, skill_data.name))
    /\ UNCHANGED store
    /\ UNCHANGED <<matchVars, mergeVars, normVars>>

(* update_skill writing the entry of an unknown name before it reports failure *)
UpdateSkill_WritingUnknown(skill_id, skill_data) ==
    /\ tax_ops < MaxTaxOps
    /\ tax_ops' = tax_ops + 1
    /\ IF Locate(taxonomy_data, skill_id)[2] = 0
       THEN /\ tax_outcome' = Outcome("update", FALSE, skill_id)
            /\ taxonomy_data' =
                  IF Locate(taxonomy_data, skill_id)[1] = 0 THEN taxonomy_data
                  ELSE [taxonomy_data EXCEPT
                           ![Locate(taxonomy_data, skill_id)[1]].skills =
                               Append(@, [name |-> IdName(skill_id),
                                          data |-> skill_data])]
       ELSE /\ taxonomy_data' =
                [taxonomy_data EXCEPT
                    ![Locate(taxonomy_data, skill_id)[1]].skills
                        [Locate(taxonomy_data, skill_id)[2]].data =
                            DictUpdate(DictUpdate(@, skill_data),
                                       [updated_at |-> "now"])]
            /\ tax_outcome' = Outcome("update", TRUE, skill_id)
    /\ UNCHANGED categories
    /\ UNCHANGED store
    /\ UNCHANGED <<matchVars, mergeVars, normVars>>

(* update_skill(skill_id, skill_data) *)
UpdateSkill(skill_id, skill_data) ==
    /\ tax_ops < MaxTaxOps
    /\ tax_ops' = tax_ops + 1
    /\ IF Locate(taxonomy_data, skill_id)[2] = 0
       THEN /\ tax_outcome' = Outcome("update", FALSE, skill_id)
            /\ UNCHANGED taxonomy_data
       ELSE /\ taxonomy_data' =
                [taxonomy_data EXCEPT
                    ![Locate(taxonomy_data, skill_id)[1]].skills
                        [Locate(taxonomy_data, skill_id)[2]].data =
                            DictUpdate(DictUpdate(@, skill_data),
                                       [updated_at |-> "now"])]
            /\ tax_outcome' = Outcome("update", TRUE, skill_id)
    /\ UNCHANGED categories
    /\ UNCHANGED store
    /\ UNCHANGED <<matchVars, mergeVars, normVars>>

(* delete_skill(skill_id) *)
DeleteSkill(skill_id) ==
    /\ tax_ops < MaxTaxOps
    /\ tax_ops' = tax_ops + 1
    /\ IF Locate(taxonomy_data, skill_id)[2] = 0
       THEN /\ tax_outcome' = Outcome("delete", FALSE, skill_id)
            /\ UNCHANGED <<taxonomy_data, categories>>
       ELSE LET c == Locate(taxonomy_data, skill_id)[1]
                k == Locate(taxonomy_data, skill_id)[2]
                category == taxonomy_data[c].category
            IN  /\ taxonomy_data' =
                     [taxonomy_data EXCEPT ![c].skills = RemoveAt(@, k)]
                /\ categories' =
                     IF /\ category \in DOMAIN categories
                        /\ InList(categories[category], IdName(skill_id))
                     THEN [categories EXCEPT ![category] =
                              ListRemove(@, IdName(skill_id))]
                     ELSE categories
                /\ tax_outcome' = Outcome("delete", TRUE, skill_id)
    /\ UNCHANGED store
    /\ UNCHANGED <<matchVars, mergeVars, normVars>>

(* The store becomes unavailable: from now on get_all_skills raises. *)
StoreGoesDown ==
    /\ store = "up"
    /\ tax_ops < MaxTaxOps
    /\ tax_ops' = tax_ops + 1
    /\ store' = "lost"
    /\ UNCHANGED <<taxonomy_data, categories, tax_outcome>>
    /\ UNCHANGED <<matchVars, mergeVars, normVars>>

(* Arguments of the taxonomy calls *)
AddInputs ==
    {[name |-> <<"R","e","a","c","t","t">>, category |-> "frameworks"],
     [name |-> <<"C","I","/","C","D">>, category |-> "devops"],
     [name |-> <<"J","S">>, category |-> "programming_languages",
      level |-> "popular"],
     [name |-> <<"P","o","s","t","g","r","e","s">>, category |-> "data_science",
      aliases |-> <<<<"P","o","s","t","g","r","e","S","Q","L">>>>],
     [name |-> <<"R","e","a","c","t">>, category |-> "frameworks"],
     [category |-> "frameworks"]}

SkillIds ==
    {SkillId("frameworks", <<"R","e","a","c","t">>), SkillId("frameworks", <<"V","u","e">>),
     SkillId("design", <<"R","e","a","c","t">>), <<"R","e","a","c","t">>}

UpdateInputs == {[aliases |-> <<<<"j","s">>>>], [level |-> "popular"]}

-----------------------------------------------------------------------------
(* SkillNormalizer: string rewriting *)

(* str.title(): a letter that follows a non-letter is upper-cased, every   *)
(* other letter lower-cased.                                               *)
Title(s) ==
    [k \in 1..Len(s) |->
        IF ~IsAlpha(s[k]) THEN s[k]
        ELSE IF k = 1 \/ ~IsAlpha(s[k - 1]) THEN UpperChar(s[k])
        ELSE LowerChar(s[k])]

(* s[k:k+len(p)] == p under re.IGNORECASE *)
MatchesAtIgnoreCase(s, k, p) ==
    /\ k >= 1
    /\ k + Len(p) - 1 <= Len(s)
    /\ \A d \in 1..Len(p) : LowerChar(s[k + d - 1]) = LowerChar(p[d])

PrefixWords ==
    {<<"B","a","s","i","c">>, <<"A","d","v","a","n","c","e","d">>, <<"S","e","n","i","o","r">>, <<"J","u","n","i","o","r">>, <<"E","x","p","e","r","t">>, <<"P","r","o","f","i","c","i","e","n","t"," ","i","n">>}

SuffixWords ==
    {<<"E","x","p","e","r","t">>, <<"S","p","e","c","i","a","l","i","s","t">>, <<"D","e","v","e","l","o","p","e","r">>, <<"E","n","g","i","n","e","e","r">>, <<"A","n","a","l","y","s","t">>, <<"M","a","n","a","g","e","r">>}

(* re.sub(r'^(Basic|...|Proficient in)\s+', '', s, flags=re.IGNORECASE) *)
StripPrefix(s) ==
    IF \E p \in PrefixWords :
          /\ MatchesAtIgnoreCase(s, 1, p)
          /\ Len(s) > Len(p)
          /\ IsSpace(s[Len(p) + 1])
    THEN LET p == CHOOSE p \in PrefixWords :
                     /\ MatchesAtIgnoreCase(s, 1, p)
                     /\ Len(s) > Len(p)
                     /\ IsSpace(s[Len(p) + 1])
         IN  LStrip(SubSeq(s, Len(p) + 1, Len(s)))
    ELSE s

(* re.sub(r'\s+(Expert|...|Manager)$', '', s, flags=re.IGNORECASE) *)
StripSuffix(s) ==
    IF \E w \in SuffixWords :
          /\ MatchesAtIgnoreCase(s, Len(s) - Len(w) + 1, w)
          /\ Len(s) > Len(w)
          /\ IsSpace(s[Len(s) - Len(w)])
    THEN LET w == CHOOSE w \in SuffixWords :
                     /\ MatchesAtIgnoreCase(s, Len(s) - Len(w) + 1, w)
                     /\ Len(s) > Len(w)
                     /\ IsSpace(s[Len(s) - Len(w)])
         IN  RStrip(SubSeq(s, 1, Len(s) - Len(w)))
    ELSE s

(* re.sub(r'\s*X\s*', rep, s) for a one-character X *)
RECURSIVE SubSymbol(_, _, _)
SubSymbol(s, sym, rep) ==
    IF s = <<>> THEN <<>>
    ELSE IF LStrip(s) # <<>> /\ Head(LStrip(s)) = sym
         THEN rep \o SubSymbol(LStrip(Tail(LStrip(s))), sym, rep)
         ELSE <<Head(s)>> \o SubSymbol(Tail(s), sym, rep)

(* SkillNormalizer._preprocess_skill *)
NormalizerPreprocess(skill) ==
    IF skill = <<>> THEN skill
    ELSE Strip(SubSymbol(SubSymbol(StripSuffix(StripPrefix(Title(Strip(skill)))),
                                   "&", <<" ","a","n","d"," ">>),
                         "/", <<" ","o","r"," ">>))

(* normalization_patterns, in order; every literal pattern starts with \b  *)
(* and word_end tells whether it also ends with \b.                        *)
normalization_patterns ==
    <<[kind |-> "spaces"],
      [kind |-> "capitalize"],
      [kind |-> "literal", pat |-> <<"J","S">>,
       rep |-> <<"J","a","v","a","S","c","r","i","p","t">>, word_end |-> TRUE],
      [kind |-> "literal", pat |-> <<"T","S">>,
       rep |-> <<"T","y","p","e","S","c","r","i","p","t">>, word_end |-> TRUE],
      [kind |-> "literal", pat |-> <<"P","Y">>,
       rep |-> <<"P","y","t","h","o","n">>, word_end |-> TRUE],
      [kind |-> "literal", pat |-> <<"R","B">>,
       rep |-> <<"R","u","b","y">>, word_end |-> TRUE],
      [kind |-> "literal", pat |-> <<"G","O">>,
       rep |-> <<"G","o">>, word_end |-> TRUE],
      [kind |-> "literal", pat |-> <<"C","+","+">>,
       rep |-> <<"C","+","+">>, word_end |-> FALSE],
      [kind |-> "literal", pat |-> <<"C","#">>,
       rep |-> <<"C","#">>, word_end |-> FALSE],
      [kind |-> "literal", pat |-> <<".","N","E","T">>,
       rep |-> <<".","N","E","T">>, word_end |-> FALSE],
      [kind |-> "literal", pat |-> <<"A","S","P",".","N","E","T">>,
       rep |-> <<"A","S","P",".","N","E","T">>, word_end |-> FALSE],
      [kind |-> "literal", pat |-> <<"N","o","d","e",".","j","s">>,
       rep |-> <<"N","o","d","e",".","j","s">>, word_end |-> FALSE],
      [kind |-> "literal", pat |-> <<"R","e","a","c","t",".","j","s">>,
       rep |-> <<"R","e","a","c","t">>, word_end |-> FALSE],
      [kind |-> "literal", pat |-> <<"V","u","e",".","j","s">>,
       rep |-> <<"V","u","e",".","j","s">>, word_end |-> FALSE],
      [kind |-> "literal", pat |-> <<"A","n","g","u","l","a","r","J","S">>,
       rep |-> <<"A","n","g","u","l","a","r">>, word_end |-> FALSE],
      [kind |-> "literal", pat |-> <<"N","e","x","t",".","j","s">>,
       rep |-> <<"N","e","x","t",".","j","s">>, word_end |-> FALSE],
      [kind |-> "literal", pat |-> <<"N","u","x","t",".","j","s">>,
       rep |-> <<"N","u","x","t",".","j","s">>, word_end |-> FALSE],
      [kind |-> "literal", pat |-> <<"D","J">>,
       rep |-> <<"D","j","a","n","g","o">>, word_end |-> TRUE],
      [kind |-> "literal", pat |-> <<"F","L">>,
       rep |-> <<"F","l","a","s","k">>, word_end |-> TRUE],
      [kind |-> "literal", pat |-> <<"F","B">>,
       rep |-> <<"F","a","s","t","A","P","I">>, word_end |-> TRUE],
      [kind |-> "literal", pat |-> <<"R","Q">>,
       rep |-> <<"R","e","d","i","s">>, word_end |-> TRUE],
      [kind |-> "literal", pat |-> <<"P","G">>,
       rep |-> <<"P","o","s","t","g","r","e","S","Q","L">>, word_end |-> TRUE],
      [kind |-> "literal", pat |-> <<"M","Y">>,
       rep |-> <<"M","y","S","Q","L">>, word_end |-> TRUE],
      [kind |-> "literal", pat |-> <<"M","O","N","G","O">>,
       rep |-> <<"M","o","n","g","o","D","B">>, word_end |-> TRUE],
      [kind |-> "literal", pat |-> <<"A","W","S">>,
       rep |-> <<"A","m","a","z","o","n"," ","W","e","b"," ","S","e","r","v","i","c","e","s">>, word_end |-> TRUE],
      [kind |-> "literal", pat |-> <<"G","C","P">>,
       rep |-> <<"G","o","o","g","l","e"," ","C","l","o","u","d"," ","P","l","a","t","f","o","r","m">>, word_end |-> TRUE],
      [kind |-> "literal", pat |-> <<"A","Z">>,
       rep |-> <<"M","i","c","r","o","s","o","f","t"," ","A","z","u","r","e">>, word_end |-> TRUE]>>

(* \b between positions k-1 and k of s *)
WordBoundary(s, k) ==
    (k > 1 /\ k - 1 <= Len(s) /\ IsWordChar(s[k - 1]))
        # (k >= 1 /\ k <= Len(s) /\ IsWordChar(s[k]))

(* re.sub of one literal rule, scanning from position k *)
RECURSIVE SubLiteralFrom(_, _, _)
SubLiteralFrom(s, k, rule) ==
    IF k > Len(s) THEN <<>>
    ELSE IF /\ WordBoundary(s, k)
            /\ MatchesAtIgnoreCase(s, k, rule.pat)
            /\ (rule.word_end => WordBoundary(s, k + Len(rule.pat)))
         THEN rule.rep \o SubLiteralFrom(s, k + Len(rule.pat), rule)
         ELSE <<s[k]>> \o SubLiteralFrom(s, k + 1, rule)

ApplyRule(s, rule) ==
    CASE rule.kind = "spaces" -> CollapseSpaces(s)
      [] rule.kind = "capitalize" ->
            IF s # <<>> /\ IsAlpha(s[1])
            THEN <<UpperChar(s[1])>> \o Tail(s) ELSE s
      [] OTHER -> SubLiteralFrom(s, 1, rule)

RECURSIVE ApplyPatternsFrom(_, _)
ApplyPatternsFrom(s, k) ==
    IF k > Len(normalization_patterns) THEN s
    ELSE ApplyPatternsFrom(ApplyRule(s, normalization_patterns[k]), k + 1)

(* SkillNormalizer._apply_normalization_patterns *)
ApplyNormalizationPatterns(skill) == ApplyPatternsFrom(skill, 1)

-----------------------------------------------------------------------------
(* SkillNormalizer: lookup strategies *)

exact_match_threshold == 950

fuzzy_match_threshold == 850

semantic_match_threshold == 750

PatternConfidence == 800

(* _find_exact_match: position in all_skills of the first entry whose name *)
(* or one of whose aliases equals skill ignoring case; 0 for None.         *)
FindExactMatch(all_skills, skill) ==
    IF \E k \in 1..Len(all_skills) :
          \/ Lower(all_skills[k].name) = Lower(skill)
          \/ \E a \in 1..Len(all_skills[k].aliases) :
                Lower(all_skills[k].aliases[a]) = Lower(skill)
    THEN CHOOSE k \in 1..Len(all_skills) :
            /\ \/ Lower(all_skills[k].name) = Lower(skill)
               \/ \E a \in 1..Len(all_skills[k].aliases) :
                     Lower(all_skills[k].aliases[a]) = Lower(skill)
            /\ \A j \in 1..(k - 1) :
                  /\ Lower(all_skills[j].name) # Lower(skill)
                  /\ \A a \in 1..Len(all_skills[j].aliases) :
                        Lower(all_skills[j].aliases[a]) # Lower(skill)
    ELSE 0

(* The candidate strings of one entry: its name, then its aliases. *)
EntryCandidates(all_skills, k) ==
    <<[text |-> all_skills[k].name, entry |-> k]>>
        \o [a \in 1..Len(all_skills[k].aliases) |->
               [text |-> all_skills[k].aliases[a], entry |-> k]]

RECURSIVE CandidatesFrom(_, _)
CandidatesFrom(all_skills, k) ==
    IF k > Len(all_skills) THEN <<>>
    ELSE EntryCandidates(all_skills, k) \o CandidatesFrom(all_skills, k + 1)

LibScores(r, p, t) == [ratio |-> r, partial |-> p, token_sort |-> t]

(* fuzz.ratio, fuzz.partial_ratio and fuzz.token_sort_ratio of two         *)
(* lower-cased strings, for the strings the inputs below can produce.      *)
NormFuzzLib(skill, candidate) ==
    CASE skill = candidate -> LibScores(100, 100, 100)
      [] skill = <<"j","s">> /\ candidate = <<"j","a","v","a","s","c","r","i","p","t">> ->
            LibScores(33, 50, 33)
      [] skill = <<"j","s">> /\ candidate = <<"e","c","m","a","s","c","r","i","p","t">> ->
            LibScores(17, 50, 17)
      [] skill = <<"j","s">> /\ candidate = <<"r","e","a","c","t">> ->
            LibScores(0, 0, 0)
      [] skill = <<"j","s">> /\ candidate = <<"r","e","a","c","t",".","j","s">> ->
            LibScores(40, 100, 40)
      [] skill = <<"j","s">> /\ candidate = <<"r","e","a","c","t","j","s">> ->
            LibScores(44, 100, 44)
      [] skill = <<"j","s">> /\ candidate = <<"r","e","a","c","t","t">> ->
            LibScores(0, 0, 0)
      [] skill = <<"j","s">> /\ candidate = <<"c","i","/","c","d">> ->
            LibScores(0, 0, 0)
      [] skill = <<"j","s">> /\ candidate = <<"p","o","s","t","g","r","e","s">> ->
            LibScores(20, 50, 20)
      [] skill = <<"j","s">> /\ candidate = <<"p","o","s","t","g","r","e","s","q","l">> ->
            LibScores(17, 50, 17)
      [] skill = <<"r","e","a","c","t","t">> /\ candidate = <<"j","a","v","a","s","c","r","i","p","t">> ->
            LibScores(25, 40, 25)
      [] skill = <<"r","e","a","c","t","t">> /\ candidate = <<"j","s">> ->
            LibScores(0, 0, 0)
      [] skill = <<"r","e","a","c","t","t">> /\ candidate = <<"e","c","m","a","s","c","r","i","p","t">> ->
            LibScores(25, 40, 25)
      [] skill = <<"r","e","a","c","t","t">> /\ candidate = <<"r","e","a","c","t">> ->
            LibScores(91, 100, 91)
      [] skill = <<"r","e","a","c","t","t">> /\ candidate = <<"r","e","a","c","t",".","j","s">> ->
            LibScores(71, 83, 71)
      [] skill = <<"r","e","a","c","t","t">> /\ candidate = <<"r","e","a","c","t","j","s">> ->
            LibScores(77, 83, 77)
      [] skill = <<"r","e","a","c","t","t">> /\ candidate = <<"c","i","/","c","d">> ->
            LibScores(18, 25, 18)
      [] skill = <<"r","e","a","c","t","t">> /\ candidate = <<"p","o","s","t","g","r","e","s">> ->
            LibScores(29, 44, 29)
      [] skill = <<"r","e","a","c","t","t">> /\ candidate = <<"p","o","s","t","g","r","e","s","q","l">> ->
            LibScores(25, 36, 25)
      [] skill = <<"c","i"," ","o","r"," ","c","d">> /\ candidate = <<"j","a","v","a","s","c","r","i","p","t">> ->
            LibScores(22, 31, 22)
      [] skill = <<"c","i"," ","o","r"," ","c","d">> /\ candidate = <<"j","s">> ->
            LibScores(0, 0, 0)
      [] skill = <<"c","i"," ","o","r"," ","c","d">> /\ candidate = <<"e","c","m","a","s","c","r","i","p","t">> ->
            LibScores(22, 25, 33)
      [] skill = <<"c","i"," ","o","r"," ","c","d">> /\ candidate = <<"r","e","a","c","t">> ->
            LibScores(15, 44, 15)
      [] skill = <<"c","i"," ","o","r"," ","c","d">> /\ candidate = <<"r","e","a","c","t",".","j","s">> ->
            LibScores(12, 15, 12)
      [] skill = <<"c","i"," ","o","r"," ","c","d">> /\ candidate = <<"r","e","a","c","t","j","s">> ->
            LibScores(13, 36, 13)
      [] skill = <<"c","i"," ","o","r"," ","c","d">> /\ candidate = <<"r","e","a","c","t","t">> ->
            LibScores(14, 40, 14)
      [] skill = <<"c","i"," ","o","r"," ","c","d">> /\ candidate = <<"c","i","/","c","d">> ->
            LibScores(62, 40, 77)
      [] skill = <<"c","i"," ","o","r"," ","c","d">> /\ candidate = <<"p","o","s","t","g","r","e","s">> ->
            LibScores(25, 27, 25)
      [] skill = <<"c","i"," ","o","r"," ","c","d">> /\ candidate = <<"p","o","s","t","g","r","e","s","q","l">> ->
            LibScores(22, 25, 22)
      [] skill = <<"p","g">> /\ candidate = <<"j","a","v","a","s","c","r","i","p","t">> ->
            LibScores(17, 50, 17)
      [] skill = <<"p","g">> /\ candidate = <<"j","s">> ->
            LibScores(0, 0, 0)
      [] skill = <<"p","g">> /\ candidate = <<"e","c","m","a","s","c","r","i","p","t">> ->
            LibScores(17, 50, 17)
      [] skill = <<"p","g">> /\ candidate = <<"r","e","a","c","t">> ->
            LibScores(0, 0, 0)
      [] skill = <<"p","g">> /\ candidate = <<"r","e","a","c","t",".","j","s">> ->
            LibScores(0, 0, 0)
      [] skill = <<"p","g">> /\ candidate = <<"r","e","a","c","t","j","s">> ->
            LibScores(0, 0, 0)
      [] skill = <<"p","g">> /\ candidate = <<"r","e","a","c","t","t">> ->
            LibScores(0, 0, 0)
      [] skill = <<"p","g">> /\ candidate = <<"c","i","/","c","d">> ->
            LibScores(0, 0, 0)
      [] skill = <<"p","g">> /\ candidate = <<"p","o","s","t","g","r","e","s">> ->
            LibScores(40, 50, 40)
      [] skill = <<"p","g">> /\ candidate = <<"p","o","s","t","g","r","e","s","q","l">> ->
            LibScores(33, 50, 33)
      [] skill = <<"t","r","a","c","e">> /\ candidate = <<"j","a","v","a","s","c","r","i","p","t">> ->
            LibScores(13, 33, 13)
      [] skill = <<"t","r","a","c","e">> /\ candidate = <<"j","s">> ->
            LibScores(0, 0, 0)
      [] skill = <<"t","r","a","c","e">> /\ candidate = <<"e","c","m","a","s","c","r","i","p","t">> ->
            LibScores(13, 33, 13)
      [] skill = <<"t","r","a","c","e">> /\ candidate = <<"r","e","a","c","t">> ->
            LibScores(60, 60, 60)
      [] skill = <<"t","r","a","c","e">> /\ candidate = <<"r","e","a","c","t",".","j","s">> ->
            LibScores(46, 60, 46)
      [] skill = <<"t","r","a","c","e">> /\ candidate = <<"r","e","a","c","t","j","s">> ->
            LibScores(50, 60, 50)
      [] skill = <<"t","r","a","c","e">> /\ candidate = <<"r","e","a","c","t","t">> ->
            LibScores(55, 60, 55)
      [] skill = <<"t","r","a","c","e">> /\ candidate = <<"c","i","/","c","d">> ->
            LibScores(20, 20, 20)
      [] skill = <<"t","r","a","c","e">> /\ candidate = <<"p","o","s","t","g","r","e","s">> ->
            LibScores(46, 60, 46)
      [] skill = <<"t","r","a","c","e">> /\ candidate = <<"p","o","s","t","g","r","e","s","q","l">> ->
            LibScores(40, 60, 40)
      [] skill = <<"s","j","t","c","a","e","r">> /\ candidate = <<"j","a","v","a","s","c","r","i","p","t">> ->
            LibScores(24, 31, 24)
      [] skill = <<"s","j","t","c","a","e","r">> /\ candidate = <<"j","s">> ->
            LibScores(22, 50, 22)
      [] skill = <<"s","j","t","c","a","e","r">> /\ candidate = <<"e","c","m","a","s","c","r","i","p","t">> ->
            LibScores(24, 31, 24)
      [] skill = <<"s","j","t","c","a","e","r">> /\ candidate = <<"r","e","a","c","t">> ->
            LibScores(17, 33, 17)
      [] skill = <<"s","j","t","c","a","e","r">> /\ candidate = <<"r","e","a","c","t",".","j","s">> ->
            LibScores(13, 25, 27)
      [] skill = <<"s","j","t","c","a","e","r">> /\ candidate = <<"r","e","a","c","t","j","s">> ->
            LibScores(14, 25, 14)
      [] skill = <<"s","j","t","c","a","e","r">> /\ candidate = <<"r","e","a","c","t","t">> ->
            LibScores(15, 29, 15)
      [] skill = <<"s","j","t","c","a","e","r">> /\ candidate = <<"c","i","/","c","d">> ->
            LibScores(17, 22, 17)
      [] skill = <<"s","j","t","c","a","e","r">> /\ candidate = <<"p","o","s","t","g","r","e","s">> ->
            LibScores(40, 46, 40)
      [] skill = <<"s","j","t","c","a","e","r">> /\ candidate = <<"p","o","s","t","g","r","e","s","q","l">> ->
            LibScores(35, 43, 35)

(* max(ratio_score, partial_score, token_score), in hundredths *)
MaxScore(scores) ==
    IF scores.ratio >= scores.partial /\ scores.ratio >= scores.token_sort
    THEN scores.ratio
    ELSE IF scores.partial >= scores.token_sort THEN scores.partial
    ELSE scores.token_sort

FuzzyScore(skill, candidate) ==
    MaxScore(NormFuzzLib(Lower(skill), Lower(candidate)))

Best(pos, score) == [pos |-> pos, score |-> score]

(* The loop of _find_fuzzy_match; best.pos is a position in cands, 0 for   *)
(* None with best_score 0.0.                                               *)
RECURSIVE FuzzyBestFrom(_, _, _, _)
FuzzyBestFrom(skill, cands, k, best) ==
    IF k > Len(cands) THEN best
    ELSE LET score == FuzzyScore(skill, cands[k].text)
         IN  FuzzyBestFrom(skill, cands, k + 1,
                 IF score > best.score THEN Best(k, score) ELSE best)

FuzzyAnswer(cands, best) ==
    IF best.pos # 0 /\ best.score * 10 >= fuzzy_match_threshold
    THEN [entry |-> cands[best.pos].entry, score |-> best.score * 10]
    ELSE [entry |-> 0, score |-> 0]

(* _find_fuzzy_match: [entry, score] with score in thousandths; entry 0    *)
(* for None.                                                               *)
FindFuzzyMatch(all_skills, skill) ==
    FuzzyAnswer(CandidatesFrom(all_skills, 1),
                FuzzyBestFrom(skill, CandidatesFrom(all_skills, 1), 1,
                              Best(0, 0)))

(* The dot product of the letter-count vectors of _get_skill_vector (the   *)
(* division by the total does not change a cosine): the number of pairs of *)
(* positions holding the same letter.                                      *)
Dot(a, b) ==
    Cardinality({q \in (1..Len(a)) \X (1..Len(b)) :
                    /\ IsAlpha(a[q[1]])
                    /\ LowerChar(a[q[1]]) = LowerChar(b[q[2]])})

(* A cosine dot / sqrt(na * nb) as its three integers; 0.0 when a          *)
(* magnitude is zero.                                                      *)
Cosine(a, b) == [dot |-> Dot(a, b), na |-> Dot(a, a), nb |-> Dot(b, b)]

IsZero(x) == x.na = 0 \/ x.nb = 0 \/ x.dot = 0

(* x > y for two cosines with the same first vector *)
CosineGreater(x, y) ==
    IF IsZero(x) THEN FALSE
    ELSE IF IsZero(y) THEN TRUE
    ELSE x.dot * x.dot * y.nb > y.dot * y.dot * x.nb

(* x >= 0.75 *)
CosineAccepts(x) ==
    ~IsZero(x) /\ 16 * x.dot * x.dot >= 9 * x.na * x.nb

(* floor(1000 * x), by bisection on lo <= 1000 * x < hi *)
RECURSIVE CosineThousandths(_, _, _)
CosineThousandths(x, lo, hi) ==
    IF hi - lo <= 1 THEN lo
    ELSE IF ((lo + hi) \div 2) * ((lo + hi) \div 2) * x.na * x.nb
               <= 1000000 * x.dot * x.dot
         THEN CosineThousandths(x, (lo + hi) \div 2, hi)
         ELSE CosineThousandths(x, lo, (lo + hi) \div 2)

(* dot_product / (magnitude1 * magnitude2) in float arithmetic for two      *)
(* vectors of equal letter frequencies, by the candidate string: 1.0, or   *)
(* 0.9999999999999998 (999 thousandths, rounded down), or                  *)
(* 1.0000000000000002 (kept as 1001, the first value above 1.0).           *)
QuotientOfEqualVectors(candidate) ==
    CASE candidate \in {<<"r","e","a","c","t">>, <<"r","e","a","c","t","t">>} -> 1000
      [] candidate \in {<<"r","e","a","c","t",".","j","s">>, <<"r","e","a","c","t","j","s">>, <<"j","a","v","a","s","c","r","i","p","t">>, <<"e","c","m","a","s","c","r","i","p","t">>, <<"c","i","/","c","d">>} -> 1001
      [] candidate \in {<<"j","s">>, <<"p","o","s","t","g","r","e","s">>, <<"p","o","s","t","g","r","e","s","q","l">>} -> 999

(* The two vectors have equal letter frequencies. *)
EqualVectors(x) == ~IsZero(x) /\ x.dot * x.dot = x.na * x.nb

(* The float returned by _calculate_vector_similarity, in thousandths *)
CalculateVectorSimilarity(x, candidate) ==
    IF EqualVectors(x) THEN QuotientOfEqualVectors(Lower(candidate))
    ELSE CosineThousandths(x, 0, 1000)

RECURSIVE SemanticBestFrom(_, _, _, _)
SemanticBestFrom(skill, cands, k, best) ==
    IF k > Len(cands) THEN best
    ELSE LET score == Cosine(skill, cands[k].text)
         IN  SemanticBestFrom(skill, cands, k + 1,
                 IF CosineGreater(score, best.score) THEN Best(k, score)
                 ELSE best)

SemanticAnswer(cands, best) ==
    IF best.pos # 0 /\ CosineAccepts(best.score)
    THEN [entry |-> cands[best.pos].entry,
          score |-> CalculateVectorSimilarity(best.score,
                                              cands[best.pos].text)]
    ELSE [entry |-> 0, score |-> 0]

(* _find_semantic_match: [entry, score]; entry 0 for None. *)
FindSemanticMatch(all_skills, skill) ==
    SemanticAnswer(CandidatesFrom(all_skills, 1),
                   SemanticBestFrom(skill, CandidatesFrom(all_skills, 1), 1,
                                    Best(0, [dot |-> 0, na |-> 1, nb |-> 1])))

-----------------------------------------------------------------------------
(* SkillNormalizer._normalize_single_skill *)

(* The NormalizedSkill built from position entry of all_skills. *)
NormalizedSkill(original, name, all_skills, entry, confidence, strategy, source) ==
    [kind |-> "skill",
     original_skill |-> original,
     normalized_skill |-> name,
     category |-> all_skills[entry].category,
     confidence |-> confidence,
     aliases |-> all_skills[entry].aliases,
     metadata |-> [match_type |-> strategy, source |-> source]]

None == [kind |-> "none"]

Raised == [kind |-> "exception"]

Ran(result, ran) == [result |-> result, ran |-> ran]

(* lines 215-233: the pattern fallback, for the rewritten string *)
PatternResult(original, normalized, pattern_match, source, all_skills) ==
    IF /\ pattern_match # normalized
       /\ FindExactMatch(all_skills, pattern_match) # 0
    THEN NormalizedSkill(original, pattern_match, all_skills,
                         FindExactMatch(all_skills, pattern_match),
                         PatternConfidence, "pattern", source)
    ELSE None

PatternStep(original, normalized, source, all_skills) ==
    Ran(PatternResult(original, normalized,
                      ApplyNormalizationPatterns(normalized), source,
                      all_skills),
        <<"exact", "fuzzy", "semantic", "pattern">>)

(* lines 201-213, for the answer of _find_semantic_match *)
SemanticResult(original, normalized, semantic_match, source, all_skills) ==
    IF semantic_match.entry # 0
       /\ semantic_match.score >= semantic_match_threshold
    THEN Ran(NormalizedSkill(original, all_skills[semantic_match.entry].name,
                             all_skills, semantic_match.entry,
                             semantic_match.score, "semantic", source),
             <<"exact", "fuzzy", "semantic">>)
    ELSE PatternStep(original, normalized, source, all_skills)

(* FuzzyResult going to the pattern fallback when the fuzzy match declines *)
FuzzyResult_SkippingSemantic(original, normalized, fuzzy_match, source, all_skills) ==
    IF fuzzy_match.entry # 0 /\ fuzzy_match.score >= fuzzy_match_threshold
    THEN Ran(NormalizedSkill(original, all_skills[fuzzy_match.entry].name,
                             all_skills, fuzzy_match.entry, fuzzy_match.score,
                             "fuzzy", source),
             <<"exact", "fuzzy">>)
    ELSE PatternStep(original, normalized, source, all_skills)

(* lines 187-199, for the answer of _find_fuzzy_match *)
FuzzyResult(original, normalized, fuzzy_match, source, all_skills) ==
    IF fuzzy_match.entry # 0 /\ fuzzy_match.score >= fuzzy_match_threshold
    THEN Ran(NormalizedSkill(original, all_skills[fuzzy_match.entry].name,
                             all_skills, fuzzy_match.entry, fuzzy_match.score,
                             "fuzzy", source),
             <<"exact", "fuzzy">>)
    ELSE SemanticResult(original, normalized,
                        FindSemanticMatch(all_skills, normalized), source,
                        all_skills)

(* lines 173-185, for the answer of _find_exact_match *)
ExactResult(original, normalized, exact_match, source, all_skills) ==
    IF exact_match # 0
    THEN Ran(NormalizedSkill(original, all_skills[exact_match].name,
                             all_skills, exact_match, exact_match_threshold,
                             "exact", source),
             <<"exact">>)
    ELSE FuzzyResult(original, normalized,
                     FindFuzzyMatch(all_skills, normalized), source,
                     all_skills)

(* The four strategies in order. *)
Strategies(original, normalized, source, all_skills) ==
    ExactResult(original, normalized, FindExactMatch(all_skills, normalized),
                source, all_skills)

(* f"{normalized_skill}:{source or 'unknown'}"; source None is <<>> *)
CacheKey(normalized, source) ==
    normalized \o <<":">> \o (IF source = <<>> THEN <<"u","n","k","n","o","w","n">> ELSE source)

(* self.cache[cache_key] = normalized, for a matched result only *)
CachePut(ch, key, result) ==
    IF result.kind # "skill" THEN ch
    ELSE [k \in DOMAIN ch \cup {key} |-> IF k = key THEN result ELSE ch[k]]

Outcome3(ran, ch) == [result |-> ran.result, ran |-> ran.ran, cache |-> ch]

Computed(ran, key, ch) == Outcome3(ran, CachePut(ch, key, ran.result))

(* The strategies with get_all_skills propagating its exception *)
LookupsFailed_Uncaught == Ran(Raised, <<"exact">>)

(* The strategies when get_all_skills raises: _find_exact_match,           *)
(* _find_fuzzy_match and _find_semantic_match each catch the exception and *)
(* return None, and so does the lookup of the pattern fallback.            *)
LookupsFailed == Ran(None, <<"exact", "fuzzy", "semantic", "pattern">>)

(* lines 168-233: the cache lookup, then the strategies *)
CachedOrComputed(original, normalized, source, td, ch, available) ==
    IF CacheKey(normalized, source) \in DOMAIN ch
    THEN Outcome3(Ran(ch[CacheKey(normalized, source)], <<>>), ch)
    ELSE IF ~available
    THEN Computed(LookupsFailed, CacheKey(normalized, source), ch)
    ELSE Computed(Strategies(original, normalized, source, GetAllSkills(td)),
                  CacheKey(normalized, source), ch)

(* A list item that is not a str: the integer 5. *)
NotAString == <<"int(5)">>

(* _normalize_single_skill(skill, source): the result, the strategies that *)
(* ran and the cache afterwards.  The integer is truthy and has no strip.  *)
NormalizeSingleSkill(skill, source, td, ch, available) ==
    IF skill = NotAString THEN Outcome3(Ran(Raised, <<>>), ch)
    ELSE IF skill = <<>> \/ Strip(skill) = <<>>
    THEN Outcome3(Ran(None, <<>>), ch)
    ELSE CachedOrComputed(Strip(skill), NormalizerPreprocess(Strip(skill)),
                          source, td, ch, available)

-----------------------------------------------------------------------------
(* SkillNormalizer.normalize_skills *)

(* Positions of the batch whose item task has not finished. *)
PendingItems(b) ==
    {i \in 1..Len(b.skills) : \A k \in 1..Len(b.done) : b.done[k].pos # i}

(* Gather handing the results over in the order the tasks finished *)
Gather_AsCompleted(done) == [i \in 1..Len(done) |-> done[i].result]

(* asyncio.gather: the results of the finished tasks, in argument order *)
Gather(done) ==
    [i \in 1..Len(done) |->
        done[CHOOSE k \in 1..Len(done) : done[k].pos = i].result]

(* The dict normalize_skills returns for one NormalizedSkill. *)
ResponseSkill(result) ==
    [original_skill |-> result.original_skill,
     normalized_skill |-> result.normalized_skill,
     category |-> result.category,
     confidence |-> result.confidence,
     aliases |-> result.aliases,
     metadata |-> result.metadata]

Lists(normalized, unmatched, total) ==
    [normalized_skills |-> normalized, unmatched_skills |-> unmatched,
     total_confidence |-> total]

(* The loop over enumerate(results), lines 118-129. *)
RECURSIVE CollectFrom(_, _, _, _)
CollectFrom(skills, results, i, acc) ==
    IF i > Len(results) THEN acc
    ELSE IF results[i].kind = "exception"
    THEN CollectFrom(skills, results, i + 1,
            Lists(acc.normalized_skills, Append(acc.unmatched_skills, skills[i]),
                  acc.total_confidence))
    ELSE IF results[i].kind = "skill"
    THEN CollectFrom(skills, results, i + 1,
            Lists(Append(acc.normalized_skills, ResponseSkill(results[i])),
                  acc.unmatched_skills,
                  acc.total_confidence + results[i].confidence))
    ELSE CollectFrom(skills, results, i + 1,
            Lists(acc.normalized_skills, Append(acc.unmatched_skills, skills[i]),
                  acc.total_confidence))

(* Response with the mean taken over every item of the batch *)
Response_MeanOverBatch(acc) ==
    [normalized_skills |-> acc.normalized_skills,
     unmatched_skills |-> acc.unmatched_skills,
     confidence_score |->
        IF acc.normalized_skills # <<>>
        THEN acc.total_confidence
                \div (Len(acc.normalized_skills) + Len(acc.unmatched_skills))
        ELSE 0,
     raised |-> FALSE]

(* Lines 131-153; the mean is rounded down to a thousandth. *)
Response(acc) ==
    [normalized_skills |-> acc.normalized_skills,
     unmatched_skills |-> acc.unmatched_skills,
     confidence_score |->
        IF acc.normalized_skills # <<>>
        THEN acc.total_confidence \div Len(acc.normalized_skills)
        ELSE 0,
     raised |-> FALSE]

(* A task result that is an exception, with return_exceptions=False: the   *)
(* await raises it into normalize_skills, which does not catch it.         *)
Propagated == [NoResponse EXCEPT !.raised = TRUE]

(* AfterGather with a gather that never returns exceptions as results *)
AfterGather_Propagating(skills, results, return_exceptions) ==
    IF \E i \in 1..Len(results) : results[i].kind = "exception"
    THEN Propagated
    ELSE Response(CollectFrom(skills, results, 1, Lists(<<>>, <<>>, 0)))

(* What normalize_skills returns once gather has returned. *)
AfterGather(skills, results, return_exceptions) ==
    IF ~return_exceptions /\ \E i \in 1..Len(results) :
                                 results[i].kind = "exception"
    THEN Propagated
    ELSE Response(CollectFrom(skills, results, 1, Lists(<<>>, <<>>, 0)))

(* return_exceptions=True, line 116 *)
ReturnExceptions == TRUE

(* Arguments of normalize_skills *)
RawSkills ==
    {<<"J","S">>, <<"j","s">>, <<"R","e","a","c","t","t">>, <<"C","I","/","C","D">>, <<"P","g">>, <<"T","r","a","c","e">>, <<"S","j","t","c","a","e","r">>, <<" ">>, NotAString}

Sources == {<<>>, <<"r","e","s","u","m","e">>}

(* normalize_skills(skills, source) up to the await of gather; the empty   *)
(* list returns at once.                                                   *)
NormalizeSkills(skills, source) ==
    /\ batch.status # "gather"
    /\ norm_calls < MaxNormCalls
    /\ norm_calls' = norm_calls + 1
    /\ IF skills = <<>>
       THEN /\ batch' = [skills |-> skills, source |-> source, done |-> <<>>,
                         status |-> "returned"]
            /\ response' = NoResponse
       ELSE /\ batch' = [skills |-> skills, source |-> source, done |-> <<>>,
                         status |-> "gather"]
            /\ UNCHANGED response
    /\ UNCHANGED cache
    /\ UNCHANGED <<matchVars, mergeVars, taxVars>>

(* The canonical names of the entries of all_skills whose name or one of   *)
(* whose aliases equals the raw skill once both are lower-cased.           *)
LowercaseHits(all_skills, skill) ==
    {all_skills[k].name : k \in
        {k \in 1..Len(all_skills) :
            \/ Lower(all_skills[k].name) = Lower(skill)
            \/ \E a \in 1..Len(all_skills[k].aliases) :
                  Lower(all_skills[k].aliases[a]) = Lower(skill)}}

(* The task of item i runs _normalize_single_skill to its end.  The entry  *)
(* added to done also records the strategies that ran and the store's      *)
(* lower-case hits for the raw skill at that moment.                       *)
RunItem(i, outcome) ==
    /\ cache' = outcome.cache
    /\ batch' = [batch EXCEPT !.done =
                    Append(@, [pos |-> i, result |-> outcome.result,
                               ran |-> outcome.ran,
                               hits |-> LowercaseHits(
                                            GetAllSkills(taxonomy_data),
                                            batch.skills[i])])]

(* NormalizeItem creating a category of the store for what it learns *)
NormalizeItem_Learning ==
    /\ batch.status = "gather"
    /\ \E i \in PendingItems(batch) :
          /\ RunItem(i, NormalizeSingleSkill(batch.skills[i], batch.source,
                                             taxonomy_data, cache,
                                             store = "up"))
          /\ taxonomy_data' = WithCategory(taxonomy_data, "learned")
    /\ UNCHANGED <<response, norm_calls>>
    /\ UNCHANGED <<matchVars, mergeVars>>
    /\ UNCHANGED <<categories, tax_outcome, tax_ops, store>>

NormalizeItem ==
    /\ batch.status = "gather"
    /\ \E i \in PendingItems(batch) :
          RunItem(i, NormalizeSingleSkill(batch.skills[i], batch.source,
                                          taxonomy_data, cache,
                                          store = "up"))
    /\ UNCHANGED <<response, norm_calls>>
    /\ UNCHANGED <<matchVars, mergeVars, taxVars>>

(* gather returns and normalize_skills runs to its return. *)
NormalizeReturn ==
    /\ batch.status = "gather"
    /\ PendingItems(batch) = {}
    /\ response' = AfterGather(batch.skills, Gather(batch.done),
                               ReturnExceptions)
    /\ batch' = [batch EXCEPT !.status = "returned"]
    /\ UNCHANGED <<cache, norm_calls>>
    /\ UNCHANGED <<matchVars, mergeVars, taxVars>>

(* initialize() has run on a new TaxonomyManager, and a new SkillNormalizer *)
(* holds it.                                                               *)
InitNorm ==
    /\ taxonomy_data = LoadedTaxonomy
    /\ categories = LoadCategories(LoadedTaxonomy)
    /\ tax_outcome = Outcome("none", TRUE, <<>>)
    /\ tax_ops = 0
    /\ store = "up"
    /\ cache = <<>>
    /\ batch = NoBatch
    /\ response = NoResponse
    /\ norm_calls = 0
    /\ MatchIdle
    /\ MergeIdle

NextNorm ==
    \/ \E skill_data \in AddInputs : AddSkill(skill_data)
    \/ \E skill_id \in SkillIds, skill_data \in UpdateInputs :
          UpdateSkill(skill_id, skill_data)
    \/ \E skill_id \in SkillIds : DeleteSkill(skill_id)
    \/ \E skills \in SeqsUpTo(RawSkills, MaxBatch), source \in Sources :
          NormalizeSkills(skills, source)
    \/ NormalizeItem
    \/ NormalizeReturn

SpecNorm == InitNorm /\ [][NextNorm]_vars

(* As InitNorm, but the store may be unavailable from the start:           *)
(* get_all_skills then raises on every call.                               *)
InitOutage ==
    /\ taxonomy_data = LoadedTaxonomy
    /\ categories = LoadCategories(LoadedTaxonomy)
    /\ tax_outcome = Outcome("none", TRUE, <<>>)
    /\ tax_ops = 0
    /\ store \in {"up", "down"}
    /\ cache = <<>>
    /\ batch = NoBatch
    /\ response = NoResponse
    /\ norm_calls = 0
    /\ MatchIdle
    /\ MergeIdle

NextOutage ==
    \/ NextNorm
    \/ StoreGoesDown

SpecOutage == InitOutage /\ [][NextOutage]_vars

-----------------------------------------------------------------------------
(* SkillClusterer.cluster_skills *)

default_min_cluster_size == 2

default_max_clusters == 10

(* min(max_clusters or self.default_max_clusters, len(skills)); None is 0 *)
NClusters(skills, max_clusters) ==
    LET wanted == IF max_clusters = 0 THEN default_max_clusters
                  ELSE max_clusters
    IN  IF wanted < Len(skills) THEN wanted ELSE Len(skills)

(* FitPredict labelling each position on its own *)
FitPredict_PerPosition(skills, lowest, highest, may_fail) ==
    {[ok |-> TRUE, labels |-> l] : l \in [1..Len(skills) -> lowest..highest]}

(* What fit_predict can answer for the skills: a label from lowest to      *)
(* highest per position, or an exception when may_fail.  Both KMeans and   *)
(* DBSCAN label by the vector alone, and the embedding and the TF-IDF      *)
(* vector of a skill are computed from its lower-case form; every DBSCAN   *)
(* cluster (min_samples=2) has two points or more, -1 being noise.         *)
FitPredict(skills, lowest, highest, may_fail) ==
    {[ok |-> FALSE, labels |-> <<>>] : x \in {1 : y \in {1} \cap {z \in {1} : may_fail}}}
    \cup
    {[ok |-> TRUE, labels |-> l] : l \in
        {l \in [1..Len(skills) -> lowest..highest] :
            /\ \A i, j \in 1..Len(skills) :
                  Lower(skills[i]) = Lower(skills[j]) => l[i] = l[j]
            /\ lowest < 0 =>
                  \A i \in 1..Len(skills) :
                      l[i] >= 0 => \E j \in 1..Len(skills) :
                                      j # i /\ l[j] = l[i]}}

(* defaultdict(list) filled in list order: one entry per key in the order  *)
(* of first occurrence; items under the key noise are left out, and        *)
(* unique keeps one occurrence of an item (the keys of a dict).            *)
RECURSIVE GroupFrom(_, _, _, _, _, _)
GroupFrom(items, keys, i, acc, noise, unique) ==
    IF i > Len(items) THEN acc
    ELSE IF keys[i] = noise
    THEN GroupFrom(items, keys, i + 1, acc, noise, unique)
    ELSE IF \E k \in 1..Len(acc) : acc[k].key = keys[i]
    THEN GroupFrom(items, keys, i + 1,
            [k \in 1..Len(acc) |->
                IF acc[k].key = keys[i]
                   /\ ~(unique /\ InList(acc[k].skills, items[i]))
                THEN [acc[k] EXCEPT !.skills = Append(@, items[i])]
                ELSE acc[k]],
            noise, unique)
    ELSE GroupFrom(items, keys, i + 1,
            Append(acc, [key |-> keys[i], skills |-> <<items[i]>>]),
            noise, unique)

(* The cluster dicts built from the groups; the representative is          *)
(* min(cluster_skills, key=len), the first of the shortest.  The centroid  *)
(* of a semantic cluster is left out.                                      *)
ClusterList(method, groups) ==
    [k \in 1..Len(groups) |->
        [cluster_id |-> <<method, groups[k].key>>,
         skills |-> groups[k].skills,
         method |-> method,
         size |-> Len(groups[k].skills),
         representative_skill |->
            groups[k].skills[CHOOSE i \in 1..Len(groups[k].skills) :
                \A j \in 1..Len(groups[k].skills) :
                    /\ Len(groups[k].skills[i]) <= Len(groups[k].skills[j])
                    /\ j < i => Len(groups[k].skills[i])
                                   < Len(groups[k].skills[j])]]]

(* _semantic_clustering: an item that is no str has no lower(), and KMeans *)
(* rejects n_clusters below 1; either exception is caught and gives [].    *)
SemanticClustering(skills, max_clusters, library) ==
    IF \/ InList(skills, NotAString)
       \/ NClusters(skills, max_clusters) < 1
       \/ ~library.ok
    THEN <<>>
    ELSE ClusterList("semantic",
                     GroupFrom(skills, library.labels, 1, <<>>, -1, FALSE))

(* _similarity_clustering: the vectorizer or DBSCAN raising gives []. *)
SimilarityClustering(skills, library) ==
    IF InList(skills, NotAString) \/ ~library.ok
    THEN <<>>
    ELSE ClusterList("similarity",
                     GroupFrom(skills, library.labels, 1, <<>>, -1, FALSE))

(* taxonomy_lookup.get(skill.lower(), "unknown"): the entry written last   *)
(* under the key wins.                                                     *)
TaxonomyLookup(all_skills, skill) ==
    LET hits == {k \in 1..Len(all_skills) :
                    \/ Lower(all_skills[k].name) = Lower(skill)
                    \/ \E a \in 1..Len(all_skills[k].aliases) :
                          Lower(all_skills[k].aliases[a]) = Lower(skill)}
    IN  IF hits = {} THEN "unknown"
        ELSE all_skills[CHOOSE k \in hits : \A h \in hits : h <= k].category

(* _category_clustering: get_all_skills raising gives []. *)
CategoryClustering(skills, all_skills, available) ==
    IF ~available \/ InList(skills, NotAString) THEN <<>>
    ELSE ClusterList("category",
            GroupFrom(skills,
                      [i \in 1..Len(skills) |->
                          TaxonomyLookup(all_skills, skills[i])],
                      1, <<>>, "", TRUE))

(* _hybrid_clustering, for the answer of _category_clustering *)
HybridClustering(category_clusters, skills, max_clusters, library) ==
    IF /\ category_clusters # <<>>
       /\ Len(category_clusters)
             <= (IF max_clusters = 0 THEN default_max_clusters
                 ELSE max_clusters)
    THEN category_clusters
    ELSE SemanticClustering(skills, max_clusters, library)

(* The values of ClusteringMethod *)
ClusteringMethods ==
    {<<"s","e","m","a","n","t","i","c">>, <<"s","i","m","i","l","a","r","i","t","y">>, <<"c","a","t","e","g","o","r","y">>, <<"h","y","b","r","i","d">>}

(* list.sort(key=len(skills), reverse=True): stable, largest first *)
RECURSIVE SortedBySize(_, _)
SortedBySize(cs, size) ==
    IF size < 0 THEN <<>>
    ELSE SelectSeq(cs, LAMBDA c : Len(c.skills) = size)
            \o SortedBySize(cs, size - 1)

(* FilteredClusters keeping the clusters of every size *)
FilteredClusters_Unfiltered(cs, skills, min_cluster_size) ==
    [clusters |-> SortedBySize(cs, Len(skills)), raised |-> FALSE]

(* Lines 82-92, for the list the method returned. *)
FilteredClusters(cs, skills, min_cluster_size) ==
    [clusters |->
        SortedBySize(SelectSeq(cs, LAMBDA c :
                                   Len(c.skills) >= min_cluster_size),
                     Len(skills)),
     raised |-> FALSE]

(* cluster_skills with no try around ClusteringMethod(method.lower()) *)
ClusterSkills_Unguarded(skills, method, min_cluster_size, max_clusters, library, all_skills, available) ==
    IF skills = <<>> \/ Len(skills) < min_cluster_size THEN NoClusters
    ELSE IF Lower(method) \notin ClusteringMethods
    THEN [clusters |-> <<>>, raised |-> TRUE]
    ELSE IF Lower(method) = <<"s","e","m","a","n","t","i","c">>
    THEN FilteredClusters(SemanticClustering(skills, max_clusters, library),
                          skills, min_cluster_size)
    ELSE IF Lower(method) = <<"s","i","m","i","l","a","r","i","t","y">>
    THEN FilteredClusters(SimilarityClustering(skills, library),
                          skills, min_cluster_size)
    ELSE IF Lower(method) = <<"c","a","t","e","g","o","r","y">>
    THEN FilteredClusters(CategoryClustering(skills, all_skills, available),
                          skills, min_cluster_size)
    ELSE FilteredClusters(
            HybridClustering(CategoryClustering(skills, all_skills, available), skills,
                             max_clusters, library),
            skills, min_cluster_size)

(* cluster_skills: ClusteringMethod(...) raises ValueError for a name that *)
(* is no value of the enum, and line 94 turns it into [].                  *)
ClusterSkills(skills, method, min_cluster_size, max_clusters, library, all_skills, available) ==
    IF skills = <<>> \/ Len(skills) < min_cluster_size THEN NoClusters
    ELSE IF Lower(method) \notin ClusteringMethods
    THEN NoClusters
    ELSE IF Lower(method) = <<"s","e","m","a","n","t","i","c">>
    THEN FilteredClusters(SemanticClustering(skills, max_clusters, library),
                          skills, min_cluster_size)
    ELSE IF Lower(method) = <<"s","i","m","i","l","a","r","i","t","y">>
    THEN FilteredClusters(SimilarityClustering(skills, library),
                          skills, min_cluster_size)
    ELSE IF Lower(method) = <<"c","a","t","e","g","o","r","y">>
    THEN FilteredClusters(CategoryClustering(skills, all_skills, available),
                          skills, min_cluster_size)
    ELSE FilteredClusters(
            HybridClustering(CategoryClustering(skills, all_skills, available), skills,
                             max_clusters, library),
            skills, min_cluster_size)

(* Arguments of cluster_skills *)
ClusterCalls(n) ==
    [skills : SeqsUpTo({<<"j","s">>, <<"J","S">>, <<"R","e","a","c","t">>, NotAString}, n),
     method : ClusteringMethods \cup {<<"C","A","T","E","G","O","R","Y">>, <<"k","m","e","a","n","s">>},
     min_cluster_size : 1..default_min_cluster_size,
     max_clusters : {-1, 0, 1}]

ClusterInputs == ClusterCalls(MaxSkills)

(* The answers the library can give to the call. *)
LibraryAnswers(call) ==
    IF Lower(call.method) = <<"s","i","m","i","l","a","r","i","t","y">>
    THEN FitPredict(call.skills, -1, Len(call.skills) - 1, TRUE)
    ELSE IF Lower(call.method) \in {<<"s","e","m","a","n","t","i","c">>, <<"h","y","b","r","i","d">>}
    THEN FitPredict(call.skills, 0,
                    NClusters(call.skills, call.max_clusters) - 1, FALSE)
    ELSE {[ok |-> TRUE, labels |-> <<>>]}

(* cluster_skills(skills, method, min_cluster_size, max_clusters), once in *)
(* a behaviour                                                             *)
ClusterSkillsCall(call, library) ==
    /\ clustering.status = "idle"
    /\ clustering' =
          [skills |-> call.skills, method |-> call.method,
           min_cluster_size |-> call.min_cluster_size,
           max_clusters |-> call.max_clusters, library |-> library,
           status |-> "done"]
    /\ cluster_result' =
          ClusterSkills(call.skills, call.method, call.min_cluster_size,
                        call.max_clusters, library,
                        GetAllSkills(taxonomy_data), store = "up")
    /\ UNCHANGED <<clusters, similarity_threshold, merged>>
    /\ UNCHANGED <<matchVars, taxVars, normVars>>

(* The taxonomy changes come before the call, which reads the store once. *)
NextCluster ==
    \/ /\ clustering.status = "idle"
       /\ \E skill_data \in AddInputs : AddSkill(skill_data)
    \/ /\ clustering.status = "idle"
       /\ \E skill_id \in SkillIds, skill_data \in UpdateInputs :
             UpdateSkill(skill_id, skill_data)
    \/ /\ clustering.status = "idle"
       /\ \E skill_id \in SkillIds : DeleteSkill(skill_id)
    \/ /\ clustering.status = "idle"
       /\ StoreGoesDown
    \/ /\ clustering.status = "idle"
       /\ \E call \in ClusterInputs :
             \E library \in LibraryAnswers(call) :
                ClusterSkillsCall(call, library)

SpecCluster == InitNorm /\ [][NextCluster]_vars

-----------------------------------------------------------------------------
(* The four reading operations beside the taxonomy operations *)

(* A loaded store with a normalizer, a matcher and a clusterer on it; the  *)
(* matcher is either unused or about to be called on lists of at most one  *)
(* skill.                                                                  *)
InitStore ==
    /\ taxonomy_data = LoadedTaxonomy
    /\ categories = LoadCategories(LoadedTaxonomy)
    /\ tax_outcome = Outcome("none", TRUE, <<>>)
    /\ tax_ops = 0
    /\ store = "up"
    /\ cache = <<>>
    /\ batch = NoBatch
    /\ response = NoResponse
    /\ norm_calls = 0
    /\ MergeIdle
    /\ \/ MatchIdle
       \/ /\ source_skills \in SeqsUpTo(MatchVocab, 1)
          /\ target_skills \in SeqsUpTo(MatchVocab, 1)
          /\ threshold \in Thresholds
          /\ lib = LibOf(source_skills, target_skills)
          /\ sim = SimOf(source_skills, target_skills)
          /\ match_type = "none"
          /\ match_result = NoResult
          /\ mpc = "call"
          /\ overlap = NoOverlap
          /\ embedding = NoEmbedding

(* cluster_skills calls on at most MaxBatch skills *)
StoreClusterInputs == ClusterCalls(MaxBatch)

(* The taxonomy operations run at any moment; a behaviour uses one of the  *)
(* normalizer, the matcher and the clusterer.                              *)
NextStore ==
    \/ \E skill_data \in AddInputs : AddSkill(skill_data)
    \/ \E skill_id \in SkillIds, skill_data \in UpdateInputs :
          UpdateSkill(skill_id, skill_data)
    \/ \E skill_id \in SkillIds : DeleteSkill(skill_id)
    \/ \E mtype \in MatchTypes : DoMatch(mtype)
    \/ DoOverlap
    \/ /\ mpc = "idle"
       /\ clustering.status = "idle"
       /\ \E skills \in SeqsUpTo(RawSkills, MaxBatch), source \in Sources :
             NormalizeSkills(skills, source)
    \/ NormalizeItem
    \/ NormalizeReturn
    \/ /\ mpc = "idle"
       /\ batch.status = "idle"
       /\ clustering.status = "idle"
       /\ \E call \in StoreClusterInputs :
             \E library \in LibraryAnswers(call) :
                ClusterSkillsCall(call, library)

SpecStore == InitStore /\ [][NextStore]_vars

-----------------------------------------------------------------------------
(* Claims about the matcher *)

Finished(mtype) == mpc = "done" /\ match_type = mtype

Matches == match_result.matches

\* C1: in the result of one match_skills call, whatever the strategy, no
\* source position and no target position belongs to two matches.
C1_EachPositionInAtMostOneMatch ==
    (mpc = "done" /\ match_type \in MatchTypes) =>
        \A a, b \in 1..Len(Matches) :
            a # b => /\ Matches[a].si # Matches[b].si
                     /\ Matches[a].ti # Matches[b].ti

InSeq(x, seq) == \E k \in 1..Len(seq) : seq[k] = x

\* C2 as stated: exact pairs only inputs that are equal ignoring case, with
\* confidence 1.0, and every target equal (ignoring case) to no source is in
\* unmatched_target.
C2_ExactPairsEqualIgnoringCase ==
    Finished("exact") =>
        /\ \A k \in 1..Len(Matches) :
              /\ Lower(source_skills[Matches[k].si])
                    = Lower(target_skills[Matches[k].ti])
              /\ Matches[k].confidence = 1000
        /\ \A j \in 1..Len(target_skills) :
              (\A i \in 1..Len(source_skills) :
                    Lower(source_skills[i]) # Lower(target_skills[j]))
              => InSeq(target_skills[j], match_result.unmatched_target)

\* C2 amended: exact pairs only inputs whose preprocessed forms (lower case,
\* trimmed, blanks collapsed, punctuation removed, javascript/typescript/
\* python abbreviated) are equal, with confidence 1.0, and every target whose
\* preprocessed form equals that of no source is in unmatched_target.
C2_ExactPairsEqualPreprocessed ==
    Finished("exact") =>
        /\ \A k \in 1..Len(Matches) :
              /\ MatcherPreprocess(source_skills[Matches[k].si])
                    = MatcherPreprocess(target_skills[Matches[k].ti])
              /\ Matches[k].source_skill
                    = MatcherPreprocess(source_skills[Matches[k].si])
              /\ Matches[k].target_skill
                    = MatcherPreprocess(target_skills[Matches[k].ti])
              /\ Matches[k].confidence = 1000
        /\ \A j \in 1..Len(target_skills) :
              (\A i \in 1..Len(source_skills) :
                    MatcherPreprocess(source_skills[i])
                        # MatcherPreprocess(target_skills[j]))
              => InSeq(target_skills[j], match_result.unmatched_target)

\* an exact run that paired two inputs differing in case and left a target
\* unmatched
C2_Witness ==
    /\ Finished("exact")
    /\ \E k \in 1..Len(Matches) :
          /\ source_skills[Matches[k].si] # target_skills[Matches[k].ti]
          /\ Lower(source_skills[Matches[k].si])
                = Lower(target_skills[Matches[k].ti])
    /\ match_result.unmatched_target # <<>>

PairsOf(ms) ==
    {<<ms[k].source_skill, ms[k].target_skill, ms[k].si, ms[k].ti>> :
        k \in 1..Len(ms)}

\* C3: every (source, target) pair of the exact strategy is among the pairs
\* of the hybrid strategy on the same lists, for every threshold.
C3_HybridContainsExact ==
    Finished("hybrid") =>
        \A th \in Thresholds :
            PairsOf(MatchSkills(source_skills, target_skills, th, "exact",
                                lib, sim).matches)
                \subseteq PairsOf(Matches)

\* a hybrid run with an exact pair and a fuzzy pair
C3_Witness ==
    /\ Finished("hybrid")
    /\ \E k \in 1..Len(Matches) : Matches[k].match_type = "exact"
    /\ \E k \in 1..Len(Matches) : Matches[k].match_type = "fuzzy"

FuzzyCount(th) ==
    Len(FuzzyMatching(source_skills, target_skills, th, lib).matches)

\* C4: on fixed lists, a fuzzy run at a higher threshold never yields more
\* matches than the run at a lower threshold.
C4_FuzzyCountMonotone ==
    Finished("fuzzy") =>
        \A t2 \in FuzzThresholds :
            threshold <= t2 => FuzzyCount(t2) <= Len(Matches)

\* a fuzzy run at 0.7 that loses some but not all matches at 0.95
C4_Witness ==
    /\ Finished("fuzzy")
    /\ threshold = 700
    /\ FuzzyCount(950) > 0
    /\ FuzzyCount(950) < Len(Matches)

\* C5: after semantic matching has returned, no unmatched source and
\* unmatched target with similarity >= threshold are each other's most
\* similar remaining choice.
C5_NoMutualBestPairRemains ==
    Finished("semantic") =>
        LET n == Len(source_skills)
            m == Len(target_skills)
            ms == {Matches[k].si : k \in 1..Len(Matches)}
            mt == {Matches[k].ti : k \in 1..Len(Matches)}
        IN  ~\E i \in (1..n) \ ms, j \in (1..m) \ mt :
                /\ sim[<<i, j>>] >= threshold
                /\ IsBestForSource(sim, i, j, m, mt)
                /\ IsBestForTarget(sim, i, j, n, ms)

(* C7: merge_similar_clusters is idempotent: for every cluster list C and  *)
(* threshold t, applying it to its own output returns the same clusters    *)
(* (same member sets, same count) as the first application.                *)
MemberSets(cs) == [k \in 1..Len(cs) |-> cs[k].skills]

C7_MergeIdempotent ==
    Len(merged) = 2 => MemberSets(merged[2]) = MemberSets(merged[1])

-----------------------------------------------------------------------------
(* Claims about the normalizer and the taxonomy store *)

Returned == batch.status = "returned"

(* The entry of batch.done for input position i. *)
DoneAt(i) == batch.done[CHOOSE k \in 1..Len(batch.done) : batch.done[k].pos = i]

(* C6: whenever the lowercase form of a raw skill equals a canonical name  *)
(* or an alias currently in the store, normalizing it returns that skill   *)
(* with confidence exactly 0.95 and strategy exact, and the fuzzy,         *)
(* semantic and pattern strategies are not executed; this holds after any  *)
(* earlier sequence of normalize calls and taxonomy changes.               *)
C6_LowercaseHitIsExact ==
    \A k \in 1..Len(batch.done) :
        batch.done[k].hits # {} =>
            /\ batch.done[k].result.kind = "skill"
            /\ batch.done[k].result.normalized_skill \in batch.done[k].hits
            /\ batch.done[k].result.confidence = 950
            /\ batch.done[k].result.metadata.match_type = "exact"
            /\ batch.done[k].ran \in {<<>>, <<"exact">>}

(* C8: after any sequence of add_skill, update_skill and delete_skill, no  *)
(* alias of a skill equals (ignoring case) the canonical name of a         *)
(* different skill in the same category, and no alias belongs to two       *)
(* different skills.                                                       *)
C8_AliasResolvesToOneSkill ==
    \A i, j \in 1..Len(GetAllSkills(taxonomy_data)) :
        i # j =>
            \A a \in 1..Len(GetAllSkills(taxonomy_data)[i].aliases) :
                /\ ~(/\ GetAllSkills(taxonomy_data)[i].category
                           = GetAllSkills(taxonomy_data)[j].category
                     /\ Lower(GetAllSkills(taxonomy_data)[i].aliases[a])
                           = Lower(GetAllSkills(taxonomy_data)[j].name))
                /\ ~InList(GetAllSkills(taxonomy_data)[j].aliases,
                           GetAllSkills(taxonomy_data)[i].aliases[a])

(* The positions of a set, in increasing order. *)
RECURSIVE Ascending(_)
Ascending(positions) ==
    IF positions = {} THEN <<>>
    ELSE LET least == CHOOSE i \in positions : \A j \in positions : i <= j
         IN  <<least>> \o Ascending(positions \ {least})

MatchedPositions ==
    {i \in 1..Len(batch.skills) : DoneAt(i).result.kind = "skill"}

UnmatchedPositions == (1..Len(batch.skills)) \ MatchedPositions

(* C9: batch normalization preserves input order regardless of the order   *)
(* in which items complete: the entries of normalized_skills appear in     *)
(* the order of the inputs that produced them, and unmatched_skills lists  *)
(* the unmatched inputs in input order.                                    *)
C9_BatchPreservesInputOrder ==
    Returned =>
        /\ response.normalized_skills =
              [k \in 1..Cardinality(MatchedPositions) |->
                  ResponseSkill(DoneAt(Ascending(MatchedPositions)[k]).result)]
        /\ response.unmatched_skills =
              [k \in 1..Cardinality(UnmatchedPositions) |->
                  batch.skills[Ascending(UnmatchedPositions)[k]]]

(* Two items that finished in the reverse of their input order, with       *)
(* different matched results.                                              *)
C9_Witness ==
    /\ Returned
    /\ Len(batch.skills) = 2
    /\ batch.done[1].pos = 2
    /\ Len(response.normalized_skills) = 2
    /\ response.normalized_skills[1].normalized_skill
          # response.normalized_skills[2].normalized_skill

(* An item that raised or whose input is empty or whitespace-only. *)
FailedItem(i) ==
    \/ DoneAt(i).result.kind = "exception"
    \/ (batch.skills[i] # NotAString /\ Strip(batch.skills[i]) = <<>>)

(* C10: in normalize_skills, an item whose normalization raises an         *)
(* exception or whose input is degenerate (empty or whitespace-only) is    *)
(* reported in unmatched_skills, and every other item of the batch is      *)
(* still processed and reported; the batch call itself does not raise.     *)
C10_FailedItemIsUnmatched ==
    Returned =>
        /\ ~response.raised
        /\ Len(response.normalized_skills) + Len(response.unmatched_skills)
              = Len(batch.skills)
        /\ \A i \in 1..Len(batch.skills) :
              IF FailedItem(i)
              THEN /\ i \in UnmatchedPositions
                   /\ InList(response.unmatched_skills, batch.skills[i])
              ELSE \/ /\ i \in MatchedPositions
                      /\ InList(response.normalized_skills,
                                ResponseSkill(DoneAt(i).result))
                   \/ /\ i \in UnmatchedPositions
                      /\ InList(response.unmatched_skills, batch.skills[i])

(* A returned batch of an item that raised, finished first, and an item    *)
(* that matched.                                                           *)
C10_Witness ==
    /\ Returned
    /\ Len(batch.skills) = 2
    /\ batch.done[1].result.kind = "exception"
    /\ batch.done[2].result.kind = "skill"
    /\ Len(response.normalized_skills) = 1
    /\ response.unmatched_skills = <<NotAString>>

(* The sum of the confidences of the items at the given positions. *)
RECURSIVE ConfidenceSum(_)
ConfidenceSum(positions) ==
    IF positions = {} THEN 0
    ELSE LET i == CHOOSE p \in positions : TRUE
         IN  DoneAt(i).result.confidence + ConfidenceSum(positions \ {i})

(* C11: normalize_skills reports confidence_score as the mean confidence   *)
(* of the matched items (here to the thousandth below), as 0.0 when no     *)
(* item matched, and the empty input returns empty normalized and          *)
(* unmatched lists with confidence_score 0.0, without raising.             *)
C11_ConfidenceScoreIsMean ==
    Returned =>
        /\ ~response.raised
        /\ batch.skills = <<>> =>
              /\ response.normalized_skills = <<>>
              /\ response.unmatched_skills = <<>>
        /\ IF MatchedPositions = {}
           THEN response.confidence_score = 0
           ELSE /\ Cardinality(MatchedPositions) * response.confidence_score
                      <= ConfidenceSum(MatchedPositions)
                /\ ConfidenceSum(MatchedPositions)
                      < Cardinality(MatchedPositions)
                            * (response.confidence_score + 1)

(* A returned batch of two matched items with different confidences. *)
C11_Witness ==
    /\ Returned
    /\ Cardinality(MatchedPositions) = 2
    /\ DoneAt(1).result.confidence # DoneAt(2).result.confidence
    /\ 2 * response.confidence_score
          = DoneAt(1).result.confidence + DoneAt(2).result.confidence

-----------------------------------------------------------------------------
(* Claims about cluster_skills *)

Clustered == clustering.status = "done"

(* C12: for every clustering run (any method, min_cluster_size and         *)
(* max_clusters), every skill in every returned cluster is an element of   *)
(* the input skill list, and no returned cluster has fewer than            *)
(* min_cluster_size members (entries of its skills list).                  *)
C12_ClustersWithinInputAndMinSize ==
    Clustered =>
        \A k \in 1..Len(cluster_result.clusters) :
            /\ \A m \in 1..Len(cluster_result.clusters[k].skills) :
                  InList(clustering.skills,
                         cluster_result.clusters[k].skills[m])
            /\ Len(cluster_result.clusters[k].skills)
                  >= clustering.min_cluster_size
            /\ cluster_result.clusters[k].size
                  >= clustering.min_cluster_size

(* A run of three skills that returns one cluster of two: the third skill  *)
(* was in a cluster below min_cluster_size.                                *)
C12_Witness ==
    /\ Clustered
    /\ Len(clustering.skills) = 3
    /\ clustering.min_cluster_size = 2
    /\ clustering.library.ok
    /\ Len(cluster_result.clusters) = 1
    /\ Len(cluster_result.clusters[1].skills) = 2

(* C13: within the output of a single cluster_skills run (any method), no  *)
(* skill string is a member of two different clusters.                     *)
C13_ClustersDisjoint ==
    Clustered =>
        \A k1, k2 \in 1..Len(cluster_result.clusters) :
            k1 # k2 =>
                \A m \in 1..Len(cluster_result.clusters[k1].skills) :
                    ~InList(cluster_result.clusters[k2].skills,
                            cluster_result.clusters[k1].skills[m])

(* A run whose input repeats a string and that returns two clusters. *)
C13_Witness ==
    /\ Clustered
    /\ Len(cluster_result.clusters) = 2
    /\ \E i, j \in 1..Len(clustering.skills) :
          i # j /\ clustering.skills[i] = clustering.skills[j]

(* C14: the member collection of every cluster returned by cluster_skills  *)
(* is a set: no skill string occurs twice inside one cluster, also when    *)
(* the input list contains the same string more than once.                 *)
C14_NoDuplicateInsideCluster ==
    Clustered =>
        \A k \in 1..Len(cluster_result.clusters) :
            \A m1, m2 \in 1..Len(cluster_result.clusters[k].skills) :
                m1 # m2 => cluster_result.clusters[k].skills[m1]
                              # cluster_result.clusters[k].skills[m2]

(* The chosen method of the finished run cannot produce a partition: too   *)
(* few samples, an unknown method name, an item that is no string, KMeans  *)
(* or DBSCAN or the vectorizer raising, or the taxonomy lookup raising.    *)
CannotPartition ==
    \/ Len(clustering.skills) < clustering.min_cluster_size
    \/ Lower(clustering.method) \notin ClusteringMethods
    \/ InList(clustering.skills, NotAString)
    \/ /\ Lower(clustering.method) = <<"s","i","m","i","l","a","r","i","t","y">>
       /\ ~clustering.library.ok
    \/ /\ Lower(clustering.method) = <<"s","e","m","a","n","t","i","c">>
       /\ clustering.max_clusters < 0
    \/ /\ Lower(clustering.method) = <<"c","a","t","e","g","o","r","y">>
       /\ store # "up"
    \/ /\ Lower(clustering.method) = <<"h","y","b","r","i","d">>
       /\ store # "up"
       /\ clustering.max_clusters < 0

(* C20: cluster_skills never raises: when the chosen method cannot produce *)
(* a valid partition (too few samples, an unknown method name, a failure   *)
(* inside the clustering algorithm or taxonomy lookup) it returns an empty *)
(* cluster list.                                                           *)
C20_ClusterSkillsNeverRaises ==
    Clustered =>
        /\ ~cluster_result.raised
        /\ CannotPartition => cluster_result.clusters = <<>>

(* A finished run with enough skills and a method name that is no value of *)
(* ClusteringMethod.                                                       *)
C20_Witness ==
    /\ Clustered
    /\ Len(clustering.skills) >= clustering.min_cluster_size
    /\ clustering.skills # <<>>
    /\ Lower(clustering.method) \notin ClusteringMethods
    /\ cluster_result = NoClusters

-----------------------------------------------------------------------------
(* Claims about calculate_skill_overlap *)

Overlapped == overlap.status = "done"

(* The four scores of the finished calculate_skill_overlap call are 1.0. *)
AllOne ==
    /\ overlap.overlap_score = 1000
    /\ overlap.precision = 1000
    /\ overlap.recall = 1000
    /\ overlap.f1_score = 1000

(* C15 as stated: for every skill list A, calculate_skill_overlap(A, A)    *)
(* returns overlap_score, precision, recall and f1_score all equal to 1.0. *)
C15_SelfOverlapIsOne ==
    (Overlapped /\ source_skills = target_skills) => AllOne

(* C15, amended: for every skill list A that is not empty,                 *)
(* calculate_skill_overlap(A, A) returns overlap_score, precision, recall  *)
(* and f1_score all equal to 1.0; for the empty list all four are 0.0.     *)
C15_NonEmptySelfOverlapIsOne ==
    (Overlapped /\ source_skills = target_skills) =>
        IF source_skills # <<>> THEN AllOne
        ELSE /\ overlap.overlap_score = 0
             /\ overlap.precision = 0
             /\ overlap.recall = 0
             /\ overlap.f1_score = 0

(* The overlap of a list of two strings with the same preprocessed form    *)
(* with itself.                                                            *)
C15_Witness ==
    /\ Overlapped
    /\ source_skills = target_skills
    /\ Len(source_skills) = 2
    /\ source_skills[1] # source_skills[2]
    /\ MatcherPreprocess(source_skills[1]) = MatcherPreprocess(source_skills[2])
    /\ AllOne

-----------------------------------------------------------------------------
(* Claims about the taxonomy operations *)

-----------------------------------------------------------------------------
(* Claims about the confidence values *)

(* C17: every confidence value produced by the core lies in [0,1]: the     *)
(* confidence of a normalized skill, whichever of the exact, fuzzy,        *)
(* semantic and pattern strategies produced it, the confidence of every    *)
(* match of the matcher, and the batch's confidence_score and the          *)
(* matcher's average_confidence (0..1000 in thousandths).                  *)
C17_ConfidencesWithinUnitInterval ==
    /\ \A k \in 1..Len(batch.done) :
          batch.done[k].result.kind = "skill" =>
              batch.done[k].result.confidence \in 0..1000
    /\ Returned => response.confidence_score \in 0..1000
    /\ \A k \in 1..Len(match_result.matches) :
          match_result.matches[k].confidence \in 0..1000
    /\ match_result.average_confidence \in 0..1000

-----------------------------------------------------------------------------
(* Claims about an unavailable store *)

(* C19: if the TaxonomyStore is unavailable (get_all_skills raises on      *)
(* every call), normalizing any skill, singly or in a batch, yields the    *)
(* unmatched outcome for that skill and raises no exception: every string  *)
(* item returns None, no item is matched, and the returned batch lists     *)
(* every input as unmatched.                                               *)
C19_UnavailableStoreYieldsUnmatched ==
    store = "down" =>
        /\ \A k \in 1..Len(batch.done) :
              /\ batch.done[k].result.kind # "skill"
              /\ batch.skills[batch.done[k].pos] # NotAString =>
                    batch.done[k].result.kind = "none"
        /\ Returned =>
              /\ ~response.raised
              /\ response.normalized_skills = <<>>
              /\ response.unmatched_skills = batch.skills
              /\ response.confidence_score = 0

(* A returned batch of an alias of the loaded taxonomy and a string with a *)
(* semantic match in it, normalized while the store was unavailable.       *)
C19_Witness ==
    /\ store = "down"
    /\ Returned
    /\ batch.skills = <<<<"J","S">>, <<"T","r","a","c","e">>>>
    /\ response.unmatched_skills = batch.skills
    /\ ~response.raised

-----------------------------------------------------------------------------
(* Claims about the readers of the store *)

(* A step of normalize_skills, match_skills, calculate_skill_overlap or    *)
(* cluster_skills: the state of the normalizer, the matcher or the         *)
(* clusterer changes.                                                      *)
ReaderStep ==
    \/ <<batch, response, cache, norm_calls>>' # <<batch, response, cache, norm_calls>>
    \/ <<match_result, match_type, mpc, overlap>>' # <<match_result, match_type, mpc, overlap>>
    \/ <<clustering, cluster_result>>' # <<clustering, cluster_result>>

(* C18: normalize_skills, match_skills, calculate_skill_overlap and        *)
(* cluster_skills leave the TaxonomyStore unchanged: no step of any of     *)
(* them changes the set of skills or a skill's name, category, aliases,    *)
(* description or level, so the store after the return is the store before *)
(* the call unless a taxonomy operation ran in between.                    *)
C18_ReadersLeaveStoreUnchanged ==
    [][ReaderStep => UNCHANGED <<taxonomy_data, categories>>]_vars

(* Each of the four has run against the loaded store with no taxonomy      *)
(* operation beside it: a batch with a matched skill has returned, or the  *)
(* matcher has matched, or the overlap is computed, or the category method *)
(* has clustered; here the batch.                                          *)
C18_Witness ==
    /\ Returned
    /\ response.normalized_skills # <<>>
    /\ tax_ops = 0
    /\ taxonomy_data = LoadedTaxonomy
    /\ categories = LoadCategories(LoadedTaxonomy)

-----------------------------------------------------------------------------
(* Claims about the accounting of match_skills and calculate_skill_overlap *)

(* C29: the result of match_skills accounts for every input position       *)
(* exactly once, for every strategy: the number of matches plus the length *)
(* of unmatched_source equals the length of source_skills, and the number  *)
(* of matches plus the length of unmatched_target equals the length of     *)
(* target_skills.                                                          *)
C29_EveryPositionAccountedOnce ==
    (mpc = "done" /\ match_type \in MatchTypes) =>
        /\ Len(match_result.matches) + Len(match_result.unmatched_source)
              = Len(source_skills)
        /\ Len(match_result.matches) + Len(match_result.unmatched_target)
              = Len(target_skills)

(* C30: for all skill lists A and B, calculate_skill_overlap returns        *)
(* overlap_score, precision, recall and f1_score each within [0,1], and    *)
(* matched_count never exceeds min(|A|, |B|).                              *)
C30_OverlapScoresWithinUnitInterval ==
    Overlapped =>
        /\ overlap.overlap_score \in 0..1000
        /\ overlap.precision \in 0..1000
        /\ overlap.recall \in 0..1000
        /\ overlap.f1_score \in 0..1000
        /\ overlap.matched_count <= Len(source_skills)
        /\ overlap.matched_count <= Len(target_skills)

-----------------------------------------------------------------------------
(* Claims about the strategy pipeline *)

(* What the exact, fuzzy, semantic and pattern strategies each decide for  *)
(* the preprocessed string against the candidates of all_skills.           *)
Decisions(form, all_skills, cands) ==
    [exact |-> FindExactMatch(all_skills, form) # 0,
     fuzzy |-> FuzzyBestFrom(form, cands, 1, Best(0, 0)).score * 10
                  >= fuzzy_match_threshold,
     semantic |->
        \E best \in {SemanticBestFrom(form, cands, 1,
                         Best(0, [dot |-> 0, na |-> 1, nb |-> 1]))} :
           best.pos # 0 /\ CosineAccepts(best.score),
     pattern |->
        \E rewritten \in {ApplyNormalizationPatterns(form)} :
           /\ rewritten # form
           /\ FindExactMatch(all_skills, rewritten) # 0]

(* The strategies the claim lets run for these decisions. *)
ExpectedRun(dec) ==
    IF dec.exact THEN <<"exact">>
    ELSE IF dec.fuzzy THEN <<"exact", "fuzzy">>
    ELSE IF dec.semantic THEN <<"exact", "fuzzy", "semantic">>
    ELSE <<"exact", "fuzzy", "semantic", "pattern">>

(* The finished item ran the expected strategies and returned the result   *)
(* of the first that accepts, or None when none accepts.                   *)
FirstAccepting(item, dec) ==
    /\ item.ran = ExpectedRun(dec)
    /\ item.result.kind \in {"none", "skill"}
    /\ (item.result.kind = "none") <=>
          ~(dec.exact \/ dec.fuzzy \/ dec.semantic \/ dec.pattern)
    /\ item.result.kind = "skill" =>
          item.result.metadata.match_type
             = ExpectedRun(dec)[Len(ExpectedRun(dec))]

(* An item task finishes in this step, for a non-blank string whose key is *)
(* not in the cache.                                                       *)
UncachedItemStep(item, form) ==
    /\ batch.skills[item.pos] # NotAString
    /\ Strip(batch.skills[item.pos]) # <<>>
    /\ CacheKey(form, batch.source) \notin DOMAIN cache

(* C25: for a skill that is not in the cache, the normalizer tries the     *)
(* strategies in the fixed order exact, fuzzy (accept iff best score >=    *)
(* 0.85), semantic (accept iff best score >= 0.75), pattern (accept iff    *)
(* the rewritten string differs and is an exact hit), returns the result   *)
(* of the first strategy that accepts without running any later one, and   *)
(* returns unmatched iff none accepts.                                     *)
C25_FirstAcceptingStrategyWins ==
    [][(batch.status = "gather" /\ Len(batch'.done) = Len(batch.done) + 1) =>
          \A item \in {batch'.done[Len(batch'.done)]} :
             batch.skills[item.pos] # NotAString =>
                \A form \in {NormalizerPreprocess(Strip(batch.skills[item.pos]))} :
                   UncachedItemStep(item, form) =>
                      \A all_skills \in {GetAllSkills(taxonomy_data)} :
                         \A cands \in {CandidatesFrom(all_skills, 1)} :
                            \A dec \in {Decisions(form, all_skills, cands)} :
                               FirstAccepting(item, dec)]_vars

(* An item that the pattern fallback matched after the exact, fuzzy and    *)
(* semantic strategies had declined.                                       *)
C25_Witness ==
    \E k \in 1..Len(batch.done) :
        /\ batch.done[k].ran = <<"exact", "fuzzy", "semantic", "pattern">>
        /\ batch.done[k].result.kind = "skill"
        /\ batch.done[k].result.metadata.match_type = "pattern"

(* The result names the canonical name and the category of one entry of    *)
(* all_skills.                                                             *)
NamesCanonicalSkill(result, all_skills) ==
    \E k \in 1..Len(all_skills) :
        /\ all_skills[k].name = result.normalized_skill
        /\ all_skills[k].category = result.category

(* C27: with the taxonomy held fixed, every matched normalization result,   *)
(* whichever strategy produced it (the pattern fallback at confidence 0.80 *)
(* included), names a canonical skill: its normalized_skill is the         *)
(* canonical name, not an alias or a rewritten string, and its category is *)
(* the category of one skill in the store.  Stated for each result the     *)
(* strategies compute, against the store of that step.                     *)
C27_MatchedResultIsCanonical ==
    [][(batch.status = "gather" /\ Len(batch'.done) = Len(batch.done) + 1) =>
          \A item \in {batch'.done[Len(batch'.done)]} :
             (item.result.kind = "skill" /\ item.ran # <<>>) =>
                NamesCanonicalSkill(item.result, GetAllSkills(taxonomy_data))]_vars

-----------------------------------------------------------------------------
(* Claims about the cache *)

(* C28: for any sequence of normalize_skills calls on one normalizer,      *)
(* every entry of normalized_skills carries as original_skill the          *)
(* (trimmed) raw input string of the batch item that produced it, also     *)
(* when a different raw string with the same preprocessed form and source  *)
(* was normalized earlier.                                                 *)
C28_OriginalSkillIsRawInput ==
    Returned =>
        \A i \in MatchedPositions :
            DoneAt(i).result.original_skill = Strip(batch.skills[i])

(* The two results agree on the canonical skill, the category, the         *)
(* confidence and the strategy, or are both None.                          *)
SameAnswer(a, b) ==
    /\ a.kind = b.kind
    /\ a.kind = "skill" =>
          /\ a.normalized_skill = b.normalized_skill
          /\ a.category = b.category
          /\ a.confidence = b.confidence
          /\ a.metadata.match_type = b.metadata.match_type

(* C26: the normalization cache is transparent: for any interleaving of    *)
(* normalize calls with add_skill, update_skill and delete_skill, a        *)
(* normalize call for (skill, source) returns the same canonical skill,    *)
(* category, confidence and strategy that the strategy pipeline run        *)
(* without a cache would return against the store as it is at the time of  *)
(* the call.                                                               *)
C26_CacheIsTransparent ==
    [][(batch.status = "gather" /\ Len(batch'.done) = Len(batch.done) + 1) =>
          \A item \in {batch'.done[Len(batch'.done)]} :
             (batch.skills[item.pos] # NotAString
                 /\ Strip(batch.skills[item.pos]) # <<>>) =>
                SameAnswer(item.result,
                           Strategies(Strip(batch.skills[item.pos]),
                                      NormalizerPreprocess(
                                          Strip(batch.skills[item.pos])),
                                      batch.source,
                                      GetAllSkills(taxonomy_data)).result)]_vars

-----------------------------------------------------------------------------
(* Claims about the dispatch of a batch *)

(* The item tasks that gather has created and that have not finished. *)
InFlight == IF batch.status = "gather" THEN PendingItems(batch) ELSE {}

(* C24: batch normalization dispatches its items with a bounded fan-out    *)
(* chosen by the caller: at no point during a normalize_skills call are    *)
(* more item normalizations in flight than that bound, whatever the batch  *)
(* size.  normalize_skills takes no such bound; stated for any bound below *)
(* the batch size: a batch of more than one item never has all its items   *)
(* in flight at once.                                                      *)
C24_FanOutIsBounded ==
    Len(batch.skills) > 1 => Cardinality(InFlight) < Len(batch.skills)

-----------------------------------------------------------------------------
(* Claims about the representative of a cluster *)

(* rep is a member of least length among the members. *)
ShortestMember(rep, members) ==
    /\ rep \in members
    /\ \A s \in members : Len(rep) <= Len(s)

(* C21: in every cluster returned by cluster_skills and in every cluster   *)
(* returned by merge_similar_clusters, the representative is a member of   *)
(* that cluster whose string length is minimal among the cluster's         *)
(* members.                                                                *)
C21_RepresentativeIsShortestMember ==
    /\ \A k \in 1..Len(cluster_result.clusters) :
          ShortestMember(cluster_result.clusters[k].representative_skill,
                         {cluster_result.clusters[k].skills[i] :
                             i \in 1..Len(cluster_result.clusters[k].skills)})
    /\ \A m \in 1..Len(merged) : \A k \in 1..Len(merged[m]) :
          merged[m][k].skills # {} =>
              ShortestMember(merged[m][k].representative_skill,
                             merged[m][k].skills)

-----------------------------------------------------------------------------
(* Claims about the embedding of a skill *)

(* str has an alphabetic character *)
HasAlphabetic(skill) == \E k \in 1..Len(skill) : IsAlpha(skill[k])

(* every component of the returned vector is zero *)
IsZeroVector(e) == \A i \in DOMAIN e.raw : e.raw[i] = 0

(* C22: every call of _get_skill_embedding on a string returns the same    *)
(* vector; the vector is the zero vector exactly when the string has no    *)
(* alphabetic character, and it has unit norm (it was divided by its       *)
(* positive magnitude) otherwise.                                          *)
C22_EmbeddingZeroExactlyWithoutLetters ==
    \A n \in 1..Len(embedding.returned) :
       /\ embedding.returned[n] = embedding.returned[1]
       /\ IsZeroVector(embedding.returned[n]) <=> ~HasAlphabetic(embedding.skill)
       /\ HasAlphabetic(embedding.skill) => embedding.returned[n].normalized

-----------------------------------------------------------------------------
(* Claims about reads beside writes *)

(* The records of the store, each with its category and its name *)
RecordsOf(td) ==
    {[category |-> td[c].category,
      name |-> td[c].skills[k].name,
      data |-> td[c].skills[k].data] :
        <<c, k>> \in {ck \in (1..Len(td)) \X (1..MaxTaxOps + 1) :
                         ck[2] <= Len(td[ck[1]].skills)}}

(* new is the record old after the whole of one update_skill: every key of *)
(* skill_data is written and updated_at is set.                            *)
WholeUpdate(old, new) ==
    \E skill_data \in UpdateInputs :
       /\ \A key \in DOMAIN skill_data :
             key \in DOMAIN new.data /\ new.data[key] = skill_data[key]
       /\ "updated_at" \in DOMAIN new.data
       /\ \A key \in DOMAIN old.data \ (DOMAIN skill_data \cup {"updated_at"}) :
             key \in DOMAIN new.data /\ new.data[key] = old.data[key]

(* new is the record of the whole of one add_skill: aliases, description,  *)
(* level and created_at are all set.                                       *)
WholeAdd(new) ==
    \E skill_data \in AddInputs :
       /\ DOMAIN new.data =
             {"aliases", "description", "level", "created_at"}
                \cup (DOMAIN skill_data \ {"name", "category"})
       /\ new.data.aliases = DictGet(skill_data, "aliases", <<>>)
       /\ new.data.description = DictGet(skill_data, "description", "")
       /\ new.data.level = DictGet(skill_data, "level", "unknown")

SameSkill(a, b) == a.category = b.category /\ a.name = b.name

(* C23: a read that interleaves with add_skill, update_skill and           *)
(* delete_skill never observes a half-written skill. A read takes the      *)
(* records of the store in the state between two steps; at every step each *)
(* record of the store is either the record it was, or the whole of an     *)
(* update of the record it was, or the whole of an add of a record that    *)
(* was absent, and a reader's own step writes no record.                   *)
C23_ReadsSeeWholeRecords ==
    [][/\ \A new \in RecordsOf(taxonomy_data') :
             \/ new \in RecordsOf(taxonomy_data)
             \/ \E old \in RecordsOf(taxonomy_data) :
                   SameSkill(old, new) /\ WholeUpdate(old, new)
             \/ /\ \A old \in RecordsOf(taxonomy_data) : ~SameSkill(old, new)
                /\ WholeAdd(new)
       /\ ReaderStep => RecordsOf(taxonomy_data') = RecordsOf(taxonomy_data)]_vars

(* A batch of two is being normalized, one item is done and the other is   *)
(* pending, and update_skill has written a record beside it.               *)
C23_Witness ==
    /\ batch.status = "gather"
    /\ Len(batch.skills) = 2
    /\ Len(batch.done) = 1
    /\ tax_outcome = Outcome("update", TRUE, SkillId("frameworks", <<"R","e","a","c","t">>))
    /\ \E r \in RecordsOf(taxonomy_data) : "updated_at" \in DOMAIN r.data

====
